---------------------------- MODULE Spec2Model ----------------------------
(***************************************************************************)
(* A model of irma-watchdogd: the issue model (issue_entry.go), the        *)
(* issue-diff engine and the check loop (main.go) and the HTTP probe       *)
(* executor (health_check.go).                                             *)
(*                                                                         *)
(* The specifications share the module's variables:                        *)
(*   SpecDiff   difference(old, cur) applied to bounded snapshots          *)
(*   SpecProbe  one execution of runHealthCheck against an endpoint whose  *)
(*              answer to each attempt is chosen freely                    *)
(*   Spec       the check loop of main(): runChecks, the detached          *)
(*              pushToSlack tasks and the ticker                           *)
(*   SpecEval   generateHealthCheckIssueEntry evaluated repeatedly on one  *)
(*              check and one response                                     *)
(*   SpecFan    runHealthChecks: one goroutine per probe, the channel and  *)
(*              the wait group, up to the snapshot runChecks publishes     *)
(*   SpecSched  the ticker and the check loop of main() in time            *)
(*   SpecPage   the status page's handler reading while runChecks          *)
(*              publishes                                                  *)
(*   SpecNotify pushToSlack and pushMessageToSlack on every difference,    *)
(*              one slack.Send at a time                                   *)
(*   SpecTarget checkCertificateExpiryOf and checkAtumServer on every      *)
(*              answer of their target                                     *)
(* The variables a specification does not use keep their idle values.      *)
(***************************************************************************)
EXTENDS Integers, Sequences, FiniteSets, TLC

VARIABLES
    \* ---- SpecDiff
    old,            \* difference's parameter old
    cur,            \* difference's parameter cur
    came,           \* difference's result came
    gone,           \* difference's result gone
    dpc,            \* "input" before the call, "done" after it
    \* ---- SpecProbe
    check,              \* runHealthCheck's parameter (its own copy)
    ppc,                \* where runHealthCheck stands
    attempt,            \* the client's loop counter i
    intermediateIssue,  \* <<>> for nil, <<issue>> otherwise
    resp,               \* the response client.Do returned, <<>> for nil
    err,                \* whether client.Do returned an error
    issue,              \* the classification of client.Do's result
    ret,                \* runHealthCheck's return value, <<>> for nil
    firstFail,          \* history: the first retried attempt classified
                        \* non-clean, <<>> if none yet
    seen,               \* history: the kinds of answers of the attempts
    gaveUp,             \* history: client.Do ran out of retries
    last,               \* history: the answer to the latest attempt, <<>>
                        \* before the first
    \* ---- Spec
    conf,           \* the configuration, fixed once main() has read it
    pc,             \* where the check loop's goroutine stands
    issues,         \* the global issues: the previous snapshot
    initialCheck,   \* the global initialCheck
    lastCheck,      \* the global lastCheck: the cycle that set it, 0 at start
    curIssues,      \* runChecks' local curIssues
    cycle,          \* the number of the cycle runChecks is in
    tasks,          \* the pushToSlack goroutines started, one per cycle
    sent,           \* history: the payloads handed to slack.Send, in order
    \* ---- SpecEval
    evals,          \* history: the results of the evaluations made so far
    \* ---- SpecFan
    hpc,            \* where runHealthChecks (and then runChecks) stands
    launched,       \* the number of goroutines started by the range loop
    taskpc,         \* where each probe's goroutine stands
    taskRet,        \* what runHealthCheck returned in each goroutine
    issueChan,      \* the buffered channel's content, oldest first
    waitGroup,      \* the wait group's counter
    hcIssues,       \* runHealthChecks' result issues
    \* ---- SpecSched
    now,            \* the time, in units of which conf.Interval is Interval
    tickBuf,        \* whether ticker.C holds a tick (its buffer is one)
    left,           \* the time the running runChecks still takes
    started,        \* history: when each runChecks began
    ended,          \* history: when each runChecks returned
    \* ---- SpecPage
    pages,          \* history: what each execution of handler rendered
    \* ---- SpecNotify
    nargs,          \* pushToSlack's arguments
    npos,           \* <<i, h>>: the i-th pushMessageToSlack call is at its
                    \* h-th webhook; <<0, 0>> before pushToSlack starts
    delivered,      \* history: the sends that succeeded, in order
    logged,         \* history: the sends that failed and were logged
    \* ---- SpecTarget
    target,         \* the target checked and what it answers
    targetRet,      \* the issues the check returned, <<"none">> before it
    \* ---- SpecScheme
    Warnings,       \* irmaConfig.Warnings
    schemeRuns,     \* history: each checkSchemeManagers call and its result
    \* ---- SpecRenew
    certRuns,       \* history: each cycle's check of one host's certificates
    \* ---- SpecCancel
    ctx,            \* ctx.Err() of the context CheckRetry is called with
    aborted         \* history: client.Do was ended by the context's error

diffVars == <<old, cur, came, gone, dpc>>

probeVars == <<check, ppc, attempt, intermediateIssue, resp, err, issue, ret,
               firstFail, seen, gaveUp, last>>

loopVars == <<conf, pc, issues, initialCheck, lastCheck, curIssues, cycle,
              tasks, sent>>

evalVars == <<evals>>

fanVars == <<hpc, launched, taskpc, taskRet, issueChan, waitGroup, hcIssues>>

schedVars == <<now, tickBuf, left, started, ended>>

pageVars == <<pages>>

notifyVars == <<nargs, npos, delivered, logged>>

targetVars == <<target, targetRet>>

schemeVars == <<Warnings, schemeRuns>>

renewVars == <<certRuns>>

cancelVars == <<ctx, aborted>>

extVars == <<pageVars, notifyVars, targetVars, schemeVars, renewVars, cancelVars>>

vars == <<diffVars, probeVars, loopVars, evalVars, fanVars, schedVars, extVars>>

\* The values of a specification's variables while another one runs.
DiffIdle ==
    /\ old = <<>>
    /\ cur = <<>>
    /\ came = <<>>
    /\ gone = <<>>
    /\ dpc = "idle"

ProbeIdle ==
    /\ check = [RequestURL |-> "", RequestMethod |-> "",
                ResponseStatusCodeEquals |-> 0,
                ResponseHeaderContains |-> [k \in {} |-> "ok"],
                ResponseBodyContains |-> ""]
    /\ ppc = "idle"
    /\ attempt = 0
    /\ intermediateIssue = <<>>
    /\ resp = <<>>
    /\ err = FALSE
    /\ issue = <<>>
    /\ ret = <<>>
    /\ firstFail = <<>>
    /\ seen = {}
    /\ gaveUp = FALSE
    /\ last = <<>>

LoopIdle ==
    /\ conf = [SlackWebhooks |-> <<>>, CheckSchemeManagers |-> {},
               CheckCertificateExpiry |-> <<>>, CheckAtumServers |-> <<>>,
               HealthChecks |-> <<>>]
    /\ pc = "idle"
    /\ issues = <<>>
    /\ initialCheck = FALSE
    /\ lastCheck = 0
    /\ curIssues = <<>>
    /\ cycle = 0
    /\ tasks = <<>>
    /\ sent = <<>>

EvalIdle == evals = <<>>

FanIdle ==
    /\ hpc = "idle"
    /\ launched = 0
    /\ taskpc = <<>>
    /\ taskRet = <<>>
    /\ issueChan = <<>>
    /\ waitGroup = 0
    /\ hcIssues = <<>>

SchedIdle ==
    /\ now = 0
    /\ tickBuf = FALSE
    /\ left = 0
    /\ started = <<>>
    /\ ended = <<>>

PageIdle == pages = <<>>

NotifyIdle ==
    /\ nargs = [newIssues |-> <<>>, fixedIssues |-> <<>>, initial |-> FALSE]
    /\ npos = <<0, 0>>
    /\ delivered = <<>>
    /\ logged = <<>>

TargetIdle ==
    /\ target = [kind |-> "idle"]
    /\ targetRet = <<"none">>

SchemeIdle ==
    /\ Warnings = <<>>
    /\ schemeRuns = <<>>

RenewIdle == certRuns = <<>>

CancelIdle ==
    /\ ctx = ""
    /\ aborted = FALSE

ExtIdle ==
    /\ PageIdle /\ NotifyIdle /\ TargetIdle /\ SchemeIdle /\ RenewIdle
    /\ CancelIdle

-----------------------------------------------------------------------------
(* Bounds *)

\* Longest snapshot handed to difference in SpecDiff.
MaxLen == 3

\* The number of check cycles Spec follows the loop for.
MaxCycles == 3

-----------------------------------------------------------------------------
(* issue_entry.go: the issue model *)

warning == 0
danger == 1

IssueTypes == {warning, danger}

issueEntry(t, m) == [issueType |-> t, message |-> m]

\* issueEntries.messages(): the messages, in order.
messages(il) == [i \in 1..Len(il) |-> il[i].message]

RECURSIVE filterFrom(_, _, _)
filterFrom(il, t, i) ==
    IF i > Len(il) THEN <<>>
    ELSE (IF il[i].issueType = t THEN <<il[i].message>> ELSE <<>>)
         \o filterFrom(il, t, i + 1)

\* issueEntries.filter(t): the messages of the issues of type t, in order.
filter(il, t) == filterFrom(il, t, 1)

Range(s) == {s[i] : i \in 1..Len(s)}

\* All sequences over S of length at most n.
SeqsUpTo(S, n) == UNION {[1..k -> S] : k \in 0..n}

-----------------------------------------------------------------------------
(* main.go: difference *)

\* for _, x := range old { lut[x.message] = true }
lutOfOld(o) == [m \in Range(messages(o)) |-> TRUE]

\* The second loop of difference, from index i on, with the results so far:
\* a message missing from lut is appended to came, a message found in lut is
\* marked false.
RECURSIVE diffLoopCur(_, _, _, _)
diffLoopCur(c, i, cameAcc, lut) ==
    IF i > Len(c) THEN [came |-> cameAcc, lut |-> lut]
    ELSE IF c[i].message \notin DOMAIN lut
         THEN diffLoopCur(c, i + 1, Append(cameAcc, c[i]), lut)
         ELSE diffLoopCur(c, i + 1, cameAcc,
                          [lut EXCEPT ![c[i].message] = FALSE])

\* The third loop of difference: the issues of old whose lut entry is still
\* true, in old's order.
RECURSIVE diffLoopGone(_, _, _)
diffLoopGone(o, i, lut) ==
    IF i > Len(o) THEN <<>>
    ELSE (IF lut[o[i].message] THEN <<o[i]>> ELSE <<>>)
         \o diffLoopGone(o, i + 1, lut)

\* Mutant: a message of cur that is new is entered in lut as well, so its
\* second occurrence in cur is taken for a known one.
difference_marksCame(o, c) ==
    LET earlier(k) == {c[j].message : j \in 1..(k - 1)}
        cm == SelectSeq([k \in 1..Len(c) |-> <<k, c[k]>>],
                        LAMBDA p : p[2].message \notin DOMAIN lutOfOld(o)
                                   /\ p[2].message \notin earlier(p[1]))
        r == diffLoopCur(c, 1, <<>>, lutOfOld(o))
    IN  [came |-> [k \in 1..Len(cm) |-> cm[k][2]],
         gone |-> diffLoopGone(o, 1, r.lut)]

\* Mutant: the lookup table is keyed by the whole issue (severity and
\* message) instead of the message.
difference_bySeverity(o, c) ==
    [came |-> SelectSeq(c, LAMBDA x : x \notin Range(o)),
     gone |-> SelectSeq(o, LAMBDA x : x \notin Range(c))]

\* Mutant: gone is collected by walking old backwards.
difference_goneReversed(o, c) ==
    LET r == diffLoopCur(c, 1, <<>>, lutOfOld(o))
        g == diffLoopGone(o, 1, r.lut)
    IN  [came |-> r.came,
         gone |-> [k \in 1..Len(g) |-> g[Len(g) + 1 - k]]]

\* Mutant: the else branch that marks a message as still present is missing.
difference_neverMarks(o, c) ==
    LET r == diffLoopCur(c, 1, <<>>, lutOfOld(o))
    IN  [came |-> r.came, gone |-> o]

\* difference(old, cur) (came, gone)
difference(o, c) ==
    LET r == diffLoopCur(c, 1, <<>>, lutOfOld(o))
    IN  [came |-> r.came, gone |-> diffLoopGone(o, 1, r.lut)]

-----------------------------------------------------------------------------
(* health_check.go: the HTTP probe executor *)

\* retryablehttp.NewClient()'s RetryMax: client.Do makes at most RetryMax + 1
\* attempts.
RetryMax == 4

HeaderKeys == {"X-Status", "X-Env"}
HeaderValues == {"ok", "degraded"}
Statuses == {200, 404, 500}
Bodies == {"", "ping pong!"}

\* What one attempt of the underlying HTTP client can yield: a transport
\* error the retry policy retries ("transient"), one it does not retry
\* ("permanent": too many redirects, an untrusted certificate, ...), or a
\* response.
NoHeader == [k \in HeaderKeys |-> "degraded"]

ErrOutcomes ==
    [err : {"transient", "permanent"}, StatusCode : {0}, Header : {NoHeader},
     Body : {""}, bodyErr : {FALSE}]

RespOutcomes ==
    [err : {"none"}, StatusCode : Statuses, Header : [HeaderKeys -> HeaderValues],
     Body : Bodies, bodyErr : BOOLEAN]

Outcomes == ErrOutcomes \cup RespOutcomes

\* The ProbeSpecs of the model: type HealthCheck without the request
\* headers and body, which no result depends on.
MalformedURLs == {"::bad"}
InvalidMethods == {"BAD METHOD"}

HeaderMaps ==
    { [k \in {} |-> "ok"],
      [k \in {"X-Status"} |-> "ok"],
      [k \in HeaderKeys |-> "ok"] }

HealthChecks ==
    [RequestURL : {"https://a/health"} \cup MalformedURLs,
     RequestMethod : {""} \cup InvalidMethods,
     ResponseStatusCodeEquals : {0, 500},
     ResponseHeaderContains : HeaderMaps,
     ResponseBodyContains : {"", "pong"}]

\* strings.Contains(s, sub)
Contains(s, sub) ==
    \E i \in 0..(Len(s) - Len(sub)) : SubSeq(s, i + 1, i + Len(sub)) = sub

\* Lines 55-61: the defaults, set on runHealthCheck's copy of the check.
withDefaults(c) ==
    [c EXCEPT !.RequestMethod = IF @ = "" THEN "GET" ELSE @,
              !.ResponseStatusCodeEquals = IF @ = 0 THEN 200 ELSE @]

\* Mutant: only the method is validated when the request is built.
NewRequestFails_methodOnly(c) == c.RequestMethod \in InvalidMethods

\* retryablehttp.NewRequest fails on a method or URL net/http rejects.
NewRequestFails(c) ==
    c.RequestURL \in MalformedURLs \/ c.RequestMethod \in InvalidMethods

\* The request carries no context of its own (context.Background()), which
\* is never cancelled.
ctxErr == FALSE

\* Mutant: only transport errors are retried, no status code is.
DefaultRetryPolicy_errorsOnly(cancelled, o) ==
    ~cancelled /\ o.err = "transient"

\* retryablehttp.DefaultRetryPolicy(ctx, resp, err): whether to retry.
DefaultRetryPolicy(cancelled, o) ==
    IF cancelled THEN FALSE
    ELSE IF o.err # "none" THEN o.err = "transient"
    ELSE \/ o.StatusCode = 0
         \/ (o.StatusCode >= 500 /\ o.StatusCode # 501)

\* The keys of check.ResponseHeaderContains the response does not carry with
\* the required value.
mismatchedHeaders(c, r) ==
    {k \in DOMAIN c.ResponseHeaderContains :
        r.Header[k] # c.ResponseHeaderContains[k]}

headerIssue(c, k) ==
    issueEntry(danger,
        c.RequestURL \o ": expected response header \"" \o k \o ": "
        \o c.ResponseHeaderContains[k] \o "\" could not be found")

\* Mutant: the status code is compared after the headers.
generateHealthCheckIssueEntry_headersFirst(c, rs, respErr) ==
    IF respErr
    THEN {<<issueEntry(danger, c.RequestURL \o ": cannot be reached")>>}
    ELSE IF rs[1].bodyErr
    THEN {<<issueEntry(danger,
                       c.RequestURL \o ": response body could not be read")>>}
    ELSE IF mismatchedHeaders(c, rs[1]) # {}
    THEN {<<headerIssue(c, k)>> : k \in mismatchedHeaders(c, rs[1])}
    ELSE IF rs[1].StatusCode # c.ResponseStatusCodeEquals
    THEN {<<issueEntry(danger,
                       c.RequestURL \o ": received unexpected status code "
                       \o ToString(rs[1].StatusCode))>>}
    ELSE IF ~Contains(rs[1].Body, c.ResponseBodyContains)
    THEN {<<issueEntry(danger,
                       c.RequestURL \o ": expected response body \""
                       \o c.ResponseBodyContains \o "\" could not be found")>>}
    ELSE {<<>>}

\* generateHealthCheckIssueEntry(check, resp, respErr): the values it can
\* return, <<>> for nil. The required headers are ranged over in the
\* iteration order of a Go map, which is not fixed: with several mismatching
\* headers any of them can be the one reported.
generateHealthCheckIssueEntry(c, rs, respErr) ==
    IF respErr
    THEN {<<issueEntry(danger, c.RequestURL \o ": cannot be reached")>>}
    ELSE IF rs[1].bodyErr
    THEN {<<issueEntry(danger,
                       c.RequestURL \o ": response body could not be read")>>}
    ELSE IF rs[1].StatusCode # c.ResponseStatusCodeEquals
    THEN {<<issueEntry(danger,
                       c.RequestURL \o ": received unexpected status code "
                       \o ToString(rs[1].StatusCode))>>}
    ELSE IF mismatchedHeaders(c, rs[1]) # {}
    THEN {<<headerIssue(c, k)>> : k \in mismatchedHeaders(c, rs[1])}
    ELSE IF ~Contains(rs[1].Body, c.ResponseBodyContains)
    THEN {<<issueEntry(danger,
                       c.RequestURL \o ": expected response body \""
                       \o c.ResponseBodyContains \o "\" could not be found")>>}
    ELSE {<<>>}

\* The (resp, err) pair an attempt hands to CheckRetry.
respOf(o) == IF o.err = "none" THEN <<o>> ELSE <<>>
errOf(o) == o.err # "none"

\* The kind of an answer: its status code, -1 for a transport error.
kindOf(o) == IF o.err = "none" THEN o.StatusCode ELSE -1

\* Lines 94-97: the intermediate issue turned into the unstable warning.
unstableIssue(i) ==
    issueEntry(warning, "Unstable health check: " \o i.message)

\* Lines 81-83: the intermediate issue is set only while it is nil.
keepIntermediate(cur_, fresh) == IF cur_ = <<>> THEN fresh ELSE cur_

\* Lines 88-99: what runHealthCheck returns for the final classification
\* and the intermediate issue.
returnValue(is, inter) ==
    IF is # <<>> THEN is
    ELSE IF inter # <<>> THEN <<unstableIssue(inter[1])>>
    ELSE <<>>

InitProbe ==
    /\ ExtIdle
    /\ DiffIdle
    /\ LoopIdle
    /\ EvalIdle
    /\ FanIdle
    /\ SchedIdle
    /\ check \in HealthChecks
    /\ ppc = "start"
    /\ attempt = 0
    /\ intermediateIssue = <<>>
    /\ resp = <<>>
    /\ err = FALSE
    /\ issue = <<>>
    /\ ret = <<>>
    /\ firstFail = <<>>
    /\ seen = {}
    /\ gaveUp = FALSE
    /\ last = <<>>

\* Lines 55-68 with a request that cannot be built: the warning is returned
\* and no attempt is made.
ProbeInvalid ==
    /\ ppc = "start"
    /\ NewRequestFails(withDefaults(check))
    /\ check' = withDefaults(check)
    /\ ret' = <<issueEntry(warning,
                           check.RequestURL \o ": invalid health check")>>
    /\ ppc' = "done"
    /\ UNCHANGED <<attempt, intermediateIssue, resp, err, issue, firstFail,
                   seen, gaveUp, last>>
    /\ UNCHANGED <<diffVars, loopVars, evalVars, fanVars, schedVars, extVars>>

\* Lines 55-75 with a request that can be built.
ProbeStart ==
    /\ ppc = "start"
    /\ ~NewRequestFails(withDefaults(check))
    /\ check' = withDefaults(check)
    /\ ppc' = "attempt"
    /\ UNCHANGED <<attempt, intermediateIssue, resp, err, issue, ret,
                   firstFail, seen, gaveUp, last>>
    /\ UNCHANGED <<diffVars, loopVars, evalVars, fanVars, schedVars, extVars>>

\* One attempt of client.Do that CheckRetry does not retry (line 78-80):
\* client.Do returns the attempt's response and error.
AttemptFinal(o) ==
    /\ ppc = "attempt"
    /\ ~DefaultRetryPolicy(ctxErr, o)
    /\ resp' = respOf(o)
    /\ err' = errOf(o)
    /\ seen' = seen \cup {kindOf(o)}
    /\ last' = <<o>>
    /\ ppc' = "classify"
    /\ UNCHANGED <<check, attempt, intermediateIssue, issue, ret, firstFail,
                   gaveUp>>
    /\ UNCHANGED <<diffVars, loopVars, evalVars, fanVars, schedVars, extVars>>

\* Mutant: the retry budget is compared off by one, so that one retry more
\* than RetryMax can be made.
AttemptRetry_oneMore(o) ==
    /\ ppc = "attempt"
    /\ DefaultRetryPolicy(ctxErr, o)
    /\ RetryMax + 1 - attempt > 0
    /\ \E g \in generateHealthCheckIssueEntry(check, respOf(o), errOf(o)) :
          /\ intermediateIssue' = keepIntermediate(intermediateIssue, g)
          /\ firstFail' = IF firstFail = <<>> /\ g # <<>> THEN <<o>>
                          ELSE firstFail
    /\ attempt' = attempt + 1
    /\ seen' = seen \cup {kindOf(o)}
    /\ last' = <<o>>
    /\ UNCHANGED <<check, ppc, resp, err, issue, ret, gaveUp>>
    /\ UNCHANGED <<diffVars, loopVars, evalVars, fanVars, schedVars, extVars>>

\* One attempt that CheckRetry retries (lines 81-84) with retries left: the
\* intermediate issue is recorded if there is none yet, and the client
\* backs off and goes round again.
AttemptRetry(o) ==
    /\ ppc = "attempt"
    /\ DefaultRetryPolicy(ctxErr, o)
    /\ RetryMax - attempt > 0
    /\ \E g \in generateHealthCheckIssueEntry(check, respOf(o), errOf(o)) :
          /\ intermediateIssue' = keepIntermediate(intermediateIssue, g)
          /\ firstFail' = IF firstFail = <<>> /\ g # <<>> THEN <<o>>
                          ELSE firstFail
    /\ attempt' = attempt + 1
    /\ seen' = seen \cup {kindOf(o)}
    /\ last' = <<o>>
    /\ UNCHANGED <<check, ppc, resp, err, issue, ret, gaveUp>>
    /\ UNCHANGED <<diffVars, loopVars, evalVars, fanVars, schedVars, extVars>>

\* One attempt that CheckRetry retries with no retry left: client.Do gives
\* up and returns no response and a "giving up after N attempts" error.
AttemptGiveUp(o) ==
    /\ ppc = "attempt"
    /\ DefaultRetryPolicy(ctxErr, o)
    /\ RetryMax - attempt <= 0
    /\ \E g \in generateHealthCheckIssueEntry(check, respOf(o), errOf(o)) :
          /\ intermediateIssue' = keepIntermediate(intermediateIssue, g)
          /\ firstFail' = IF firstFail = <<>> /\ g # <<>> THEN <<o>>
                          ELSE firstFail
    /\ resp' = <<>>
    /\ err' = TRUE
    /\ gaveUp' = TRUE
    /\ seen' = seen \cup {kindOf(o)}
    /\ last' = <<o>>
    /\ ppc' = "classify"
    /\ UNCHANGED <<check, attempt, issue, ret>>
    /\ UNCHANGED <<diffVars, loopVars, evalVars, fanVars, schedVars, extVars>>

\* Line 88: the classification of what client.Do returned.
Classify ==
    /\ ppc = "classify"
    /\ issue' \in generateHealthCheckIssueEntry(check, resp, err)
    /\ ppc' = "finish"
    /\ UNCHANGED <<check, attempt, intermediateIssue, resp, err, ret,
                   firstFail, seen, gaveUp, last>>
    /\ UNCHANGED <<diffVars, loopVars, evalVars, fanVars, schedVars, extVars>>

\* Lines 89-99.
Finish ==
    /\ ppc = "finish"
    /\ ret' = returnValue(issue, intermediateIssue)
    /\ ppc' = "done"
    /\ UNCHANGED <<check, attempt, intermediateIssue, resp, err, issue,
                   firstFail, seen, gaveUp, last>>
    /\ UNCHANGED <<diffVars, loopVars, evalVars, fanVars, schedVars, extVars>>

NextProbe ==
    \/ ProbeInvalid
    \/ ProbeStart
    \/ \E o \in Outcomes : AttemptFinal(o)
    \/ \E o \in Outcomes : AttemptRetry(o)
    \/ \E o \in Outcomes : AttemptGiveUp(o)
    \/ Classify
    \/ Finish

SpecProbe == InitProbe /\ [][NextProbe]_vars

-----------------------------------------------------------------------------
(* SpecDiff: difference on every pair of snapshots up to MaxLen *)

DiffMessages == {"a: cannot be reached", "b: no TLS enabled"}

DiffIssues == [issueType : IssueTypes, message : DiffMessages]

InitDiff ==
    /\ ExtIdle
    /\ ProbeIdle
    /\ LoopIdle
    /\ EvalIdle
    /\ FanIdle
    /\ SchedIdle
    /\ old \in SeqsUpTo(DiffIssues, MaxLen)
    /\ cur \in SeqsUpTo(DiffIssues, MaxLen)
    /\ came = <<>>
    /\ gone = <<>>
    /\ dpc = "input"

Difference ==
    /\ dpc = "input"
    /\ came' = difference(old, cur).came
    /\ gone' = difference(old, cur).gone
    /\ dpc' = "done"
    /\ UNCHANGED <<old, cur>>
    /\ UNCHANGED <<probeVars, loopVars, evalVars, fanVars, schedVars, extVars>>

NextDiff == Difference

SpecDiff == InitDiff /\ [][NextDiff]_vars

-----------------------------------------------------------------------------
(* main.go: the check categories, as the sets of results a cycle can get *)

\* checkSchemeManagers: no issue, or the one Warning of a failed update.
checkSchemeManagers(c) ==
    IF c.CheckSchemeManagers = {} THEN {<<>>}
    ELSE {<<>>,
          <<issueEntry(warning,
                "irma scheme verify: update schemes: download failed")>>}

\* checkCertificateExpiryOf(url): nothing to report, an expired
\* certificate, or a chain of two certificates of one issuer that both expire
\* in ten days (the same message twice).
checkCertificateExpiryOf(url) ==
    {<<>>,
     <<issueEntry(danger, url \o ": certificate from CA has expired "
                          \o ToString(1) \o " days")>>,
     <<issueEntry(warning, url \o ": certificate from CA will expire in "
                           \o ToString(10) \o " days"),
       issueEntry(warning, url \o ": certificate from CA will expire in "
                           \o ToString(10) \o " days")>>}

\* checkCertificateExpiry: one result per host, in the configured order.
RECURSIVE certExpiryFrom(_, _)
certExpiryFrom(urls, i) ==
    IF i > Len(urls) THEN {<<>>}
    ELSE {a \o b : a \in checkCertificateExpiryOf(urls[i]),
                   b \in certExpiryFrom(urls, i + 1)}

checkCertificateExpiry(c) == certExpiryFrom(c.CheckCertificateExpiry, 1)

\* checkAtumServer(url): a valid timestamp or an invalid one.
checkAtumServer(url) ==
    {<<>>, <<issueEntry(danger, url \o ": timestamp invalid")>>}

\* checkAtumServers: one result per server, in the configured order.
RECURSIVE atumServersFrom(_, _)
atumServersFrom(urls, i) ==
    IF i > Len(urls) THEN {<<>>}
    ELSE {a \o b : a \in checkAtumServer(urls[i]),
                   b \in atumServersFrom(urls, i + 1)}

checkAtumServers(c) == atumServersFrom(c.CheckAtumServers, 1)

\* What runHealthCheck can return for check c against an endpoint whose
\* attempts are answered from outs: the classification of an answer that is
\* not retried, or of the client's giving up, with or without an
\* intermediate issue from a retried answer.
runHealthCheckReturns(c, outs) ==
    LET d == withDefaults(c)
        finals == UNION {generateHealthCheckIssueEntry(d, respOf(o), errOf(o)) :
                            o \in {x \in outs : ~DefaultRetryPolicy(ctxErr, x)}}
        retried == {x \in outs : DefaultRetryPolicy(ctxErr, x)}
        giveUp == IF retried = {} THEN {}
                  ELSE generateHealthCheckIssueEntry(d, <<>>, TRUE)
        inters == {<<>>} \cup
                  UNION {generateHealthCheckIssueEntry(d, respOf(o), errOf(o)) :
                            o \in retried}
    IN  IF NewRequestFails(d)
        THEN {<<issueEntry(warning, d.RequestURL \o ": invalid health check")>>}
        ELSE {returnValue(is, inter) : is \in finals \cup giveUp, inter \in inters}

\* The endpoints of Spec answer as expected or not at all.
LoopOutcomes ==
    {o \in Outcomes :
        \/ o.err = "transient"
        \/ /\ o.err = "none"
           /\ o.StatusCode = 200
           /\ ~o.bodyErr
           /\ o.Body = ""
           /\ \A k \in HeaderKeys : o.Header[k] = "ok"}

Perms(n) == {f \in [1..n -> 1..n] : \A i, j \in 1..n : f[i] = f[j] => i = j}

RECURSIVE flatten(_, _)
flatten(ss, i) == IF i > Len(ss) THEN <<>> ELSE ss[i] \o flatten(ss, i + 1)

\* runHealthChecks(checks): one result per probe, read from the channel in
\* the order the probes finished, the nil ones left out.
runHealthChecks(checks) ==
    LET n == Len(checks)
        rets == {r \in [1..n -> UNION {runHealthCheckReturns(checks[i], LoopOutcomes) :
                                          i \in 1..n}] :
                    \A i \in 1..n : r[i] \in runHealthCheckReturns(checks[i], LoopOutcomes)}
    IN  {flatten([i \in 1..n |-> r[f[i]]], 1) : r \in rets, f \in Perms(n)}

-----------------------------------------------------------------------------
(* main.go: pushToSlack *)

attachmentsOf(msgs, color) ==
    [i \in 1..Len(msgs) |-> [Text |-> msgs[i], Color |-> color]]

payload(text, att) == [Text |-> text, Attachments |-> att]

\* Mutant: the urgent notification lists every appeared issue, the
\* warnings too.
pushToSlack_allInUrgent(newIssues, fixedIssues, initial) ==
    LET dangers == filter(newIssues, danger)
        warnings == filter(newIssues, warning)
    IN  (IF Len(newIssues) > 0
         THEN (IF initial
               THEN <<payload("I just (re)started, so I might repeat some known issues.",
                              <<>>)>>
               ELSE <<>>)
              \o (IF Len(dangers) > 0
                  THEN <<payload("<!channel> New issues discovered.",
                                 attachmentsOf(messages(newIssues), "bad"))>>
                  ELSE <<>>)
              \o (IF Len(warnings) > 0
                  THEN <<payload("New warnings discovered.",
                                 attachmentsOf(warnings, "warning"))>>
                  ELSE <<>>)
         ELSE <<>>)
        \o (IF Len(fixedIssues) > 0
            THEN <<payload("The following issues and warnings were fixed.",
                           attachmentsOf(messages(fixedIssues), "good"))>>
            ELSE <<>>)

\* Mutant: the urgent notification is worded differently in the first
\* cycle.
pushToSlack_restartFraming(newIssues, fixedIssues, initial) ==
    LET dangers == filter(newIssues, danger)
        warnings == filter(newIssues, warning)
    IN  (IF Len(newIssues) > 0
         THEN (IF initial
               THEN <<payload("I just (re)started, so I might repeat some known issues.",
                              <<>>)>>
               ELSE <<>>)
              \o (IF Len(dangers) > 0
                  THEN <<payload(IF initial
                                 THEN "<!channel> I just (re)started and found issues."
                                 ELSE "<!channel> New issues discovered.",
                                 attachmentsOf(dangers, "bad"))>>
                  ELSE <<>>)
              \o (IF Len(warnings) > 0
                  THEN <<payload("New warnings discovered.",
                                 attachmentsOf(warnings, "warning"))>>
                  ELSE <<>>)
         ELSE <<>>)
        \o (IF Len(fixedIssues) > 0
            THEN <<payload("The following issues and warnings were fixed.",
                           attachmentsOf(messages(fixedIssues), "good"))>>
            ELSE <<>>)

\* Mutant: the fixed issues are looked at only when something appeared.
pushToSlack_fixedOnlyWithNew(newIssues, fixedIssues, initial) ==
    LET dangers == filter(newIssues, danger)
        warnings == filter(newIssues, warning)
    IN  (IF Len(newIssues) > 0
         THEN (IF initial
               THEN <<payload("I just (re)started, so I might repeat some known issues.",
                              <<>>)>>
               ELSE <<>>)
              \o (IF Len(dangers) > 0
                  THEN <<payload("<!channel> New issues discovered.",
                                 attachmentsOf(dangers, "bad"))>>
                  ELSE <<>>)
              \o (IF Len(warnings) > 0
                  THEN <<payload("New warnings discovered.",
                                 attachmentsOf(warnings, "warning"))>>
                  ELSE <<>>)
              \o (IF Len(fixedIssues) > 0
                  THEN <<payload("The following issues and warnings were fixed.",
                                 attachmentsOf(messages(fixedIssues), "good"))>>
                  ELSE <<>>)
         ELSE <<>>)

\* Mutant: the restart notice is sent whenever the flag is set, whether
\* anything appeared or not.
pushToSlack_noticeWhenever(newIssues, fixedIssues, initial) ==
    LET dangers == filter(newIssues, danger)
        warnings == filter(newIssues, warning)
    IN  (IF initial
         THEN <<payload("I just (re)started, so I might repeat some known issues.",
                        <<>>)>>
         ELSE <<>>)
        \o (IF Len(dangers) > 0
            THEN <<payload("<!channel> New issues discovered.",
                           attachmentsOf(dangers, "bad"))>>
            ELSE <<>>)
        \o (IF Len(warnings) > 0
            THEN <<payload("New warnings discovered.",
                           attachmentsOf(warnings, "warning"))>>
            ELSE <<>>)
        \o (IF Len(fixedIssues) > 0
            THEN <<payload("The following issues and warnings were fixed.",
                           attachmentsOf(messages(fixedIssues), "good"))>>
            ELSE <<>>)

\* pushToSlack(newIssues, fixedIssues, initial): its calls of
\* pushMessageToSlack, in order.
pushToSlack(newIssues, fixedIssues, initial) ==
    LET dangers == filter(newIssues, danger)
        warnings == filter(newIssues, warning)
    IN  (IF Len(newIssues) > 0
         THEN (IF initial
               THEN <<payload("I just (re)started, so I might repeat some known issues.",
                              <<>>)>>
               ELSE <<>>)
              \o (IF Len(dangers) > 0
                  THEN <<payload("<!channel> New issues discovered.",
                                 attachmentsOf(dangers, "bad"))>>
                  ELSE <<>>)
              \o (IF Len(warnings) > 0
                  THEN <<payload("New warnings discovered.",
                                 attachmentsOf(warnings, "warning"))>>
                  ELSE <<>>)
         ELSE <<>>)
        \o (IF Len(fixedIssues) > 0
            THEN <<payload("The following issues and warnings were fixed.",
                           attachmentsOf(messages(fixedIssues), "good"))>>
            ELSE <<>>)

\* pushMessageToSlack for each payload of ps in turn: one slack.Send per
\* configured webhook, tagged with the cycle k whose task sends it.
RECURSIVE pushMessagesToSlack(_, _, _, _)
pushMessagesToSlack(ps, i, hooks, k) ==
    IF i > Len(ps) THEN <<>>
    ELSE [h \in 1..Len(hooks) |->
             [url |-> hooks[h], cycle |-> k, payload |-> ps[i]]]
         \o pushMessagesToSlack(ps, i + 1, hooks, k)

-----------------------------------------------------------------------------
(* main.go: the check loop of main() and runChecks *)

HC(url) == [RequestURL |-> url, RequestMethod |-> "",
            ResponseStatusCodeEquals |-> 0,
            ResponseHeaderContains |-> [k \in {} |-> "ok"],
            ResponseBodyContains |-> ""]

\* The configurations Spec is run for: a scheme manager and an HTTP probe;
\* a certificate host and a timestamp server; an HTTP probe and no webhook;
\* all four categories and no webhook.
Confs ==
    { [SlackWebhooks |-> <<"https://hooks/1">>, CheckSchemeManagers |-> {"pbdf"},
       CheckCertificateExpiry |-> <<>>, CheckAtumServers |-> <<>>,
       HealthChecks |-> <<HC("https://a/health")>>],
      [SlackWebhooks |-> <<"https://hooks/1">>, CheckSchemeManagers |-> {},
       CheckCertificateExpiry |-> <<"https://c">>,
       CheckAtumServers |-> <<"https://t">>,
       HealthChecks |-> <<>>],
      [SlackWebhooks |-> <<>>, CheckSchemeManagers |-> {},
       CheckCertificateExpiry |-> <<>>, CheckAtumServers |-> <<>>,
       HealthChecks |-> <<HC("https://a/health")>>],
      [SlackWebhooks |-> <<>>, CheckSchemeManagers |-> {"pbdf"},
       CheckCertificateExpiry |-> <<"https://c">>,
       CheckAtumServers |-> <<"https://t">>,
       HealthChecks |-> <<HC("https://a/health")>>] }

\* Mutant: the process starts with a snapshot left over from an earlier run.
initialIssues_persisted ==
    <<issueEntry(danger, "https://t: timestamp invalid")>>

\* var issues issueEntries: empty when the process starts.
initialIssues == <<>>

Init ==
    /\ ExtIdle
    /\ DiffIdle
    /\ ProbeIdle
    /\ EvalIdle
    /\ FanIdle
    /\ SchedIdle
    /\ conf \in Confs
    /\ pc = "start"
    /\ issues = initialIssues
    /\ initialCheck = FALSE
    /\ lastCheck = 0
    /\ curIssues = <<>>
    /\ cycle = 0
    /\ tasks = <<>>
    /\ sent = <<>>

\* main.go 170-172: the loop's goroutine starts.
LoopStart ==
    /\ pc = "start"
    /\ initialCheck' = TRUE
    /\ cycle' = 1
    /\ pc' = "collect"
    /\ UNCHANGED <<conf, issues, lastCheck, curIssues, tasks, sent>>
    /\ UNCHANGED <<diffVars, probeVars, evalVars, fanVars, schedVars, extVars>>

\* Mutant: the HTTP probes' issues are put in front of the other
\* categories'.
appendCategories_healthFirst(a, b, c, d) == d \o a \o b \o c

\* runChecks 221-224: the appends to the empty curIssues of the results of
\* checkSchemeManagers (a), checkCertificateExpiry (b), checkAtumServers (c)
\* and runHealthChecks (d).
appendCategories(a, b, c, d) == a \o b \o c \o d

\* runChecks 218-226: the four categories, concatenated in this order.
RunChecksCollect ==
    /\ pc = "collect"
    /\ \E a \in checkSchemeManagers(conf), b \in checkCertificateExpiry(conf),
          c \in checkAtumServers(conf), d \in runHealthChecks(conf.HealthChecks) :
          curIssues' = appendCategories(a, b, c, d)
    /\ pc' = "notify"
    /\ UNCHANGED <<conf, issues, initialCheck, lastCheck, cycle, tasks, sent>>
    /\ UNCHANGED <<diffVars, probeVars, evalVars, fanVars, schedVars, extVars>>

\* Mutant: the snapshot is published before the difference is taken, which
\* then compares the new snapshot with itself.
RunChecksNotify_publishedFirst ==
    /\ pc = "notify"
    /\ Len(conf.SlackWebhooks) > 0
    /\ issues' = curIssues
    /\ tasks' = Append(tasks,
                       [cycle |-> cycle,
                        newIssues |-> difference(curIssues, curIssues).came,
                        fixedIssues |-> difference(curIssues, curIssues).gone,
                        initial |-> initialCheck,
                        payloads |-> pushToSlack(
                                         difference(curIssues, curIssues).came,
                                         difference(curIssues, curIssues).gone,
                                         initialCheck),
                        prev |-> curIssues,
                        snapshot |-> curIssues,
                        done |-> FALSE])
    /\ pc' = "publish"
    /\ UNCHANGED <<conf, initialCheck, lastCheck, curIssues, cycle, sent>>
    /\ UNCHANGED <<diffVars, probeVars, evalVars, fanVars, schedVars, extVars>>

\* runChecks 228-231 with a webhook configured: the difference against the
\* previous snapshot, handed with the current initialCheck to a new
\* pushToSlack goroutine. prev and snapshot record what was compared,
\* payloads the calls of pushMessageToSlack the goroutine is going to make
\* for these arguments.
RunChecksNotify ==
    /\ pc = "notify"
    /\ Len(conf.SlackWebhooks) > 0
    /\ tasks' = Append(tasks,
                       [cycle |-> cycle,
                        newIssues |-> difference(issues, curIssues).came,
                        fixedIssues |-> difference(issues, curIssues).gone,
                        initial |-> initialCheck,
                        payloads |-> pushToSlack(
                                         difference(issues, curIssues).came,
                                         difference(issues, curIssues).gone,
                                         initialCheck),
                        prev |-> issues,
                        snapshot |-> curIssues,
                        done |-> FALSE])
    /\ pc' = "publish"
    /\ UNCHANGED <<conf, issues, initialCheck, lastCheck, curIssues, cycle, sent>>
    /\ UNCHANGED <<diffVars, probeVars, evalVars, fanVars, schedVars, extVars>>

\* runChecks 228-231 with no webhook configured.
RunChecksNoWebhook ==
    /\ pc = "notify"
    /\ Len(conf.SlackWebhooks) = 0
    /\ pc' = "publish"
    /\ UNCHANGED <<conf, issues, initialCheck, lastCheck, curIssues, cycle,
                   tasks, sent>>
    /\ UNCHANGED <<diffVars, probeVars, evalVars, fanVars, schedVars, extVars>>

\* runChecks 233
RunChecksPublish ==
    /\ pc = "publish"
    /\ issues' = curIssues
    /\ pc' = "reset"
    /\ UNCHANGED <<conf, initialCheck, lastCheck, curIssues, cycle, tasks, sent>>
    /\ UNCHANGED <<diffVars, probeVars, evalVars, fanVars, schedVars, extVars>>

\* runChecks 234
RunChecksReset ==
    /\ pc = "reset"
    /\ initialCheck' = FALSE
    /\ pc' = "stamp"
    /\ UNCHANGED <<conf, issues, lastCheck, curIssues, cycle, tasks, sent>>
    /\ UNCHANGED <<diffVars, probeVars, evalVars, fanVars, schedVars, extVars>>

\* runChecks 235
RunChecksStamp ==
    /\ pc = "stamp"
    /\ lastCheck' = cycle
    /\ pc' = "tick"
    /\ UNCHANGED <<conf, issues, initialCheck, curIssues, cycle, tasks, sent>>
    /\ UNCHANGED <<diffVars, probeVars, evalVars, fanVars, schedVars, extVars>>

\* main.go 174: the ticker fires and the next cycle begins.
Tick ==
    /\ pc = "tick"
    /\ cycle < MaxCycles
    /\ cycle' = cycle + 1
    /\ curIssues' = <<>>
    /\ pc' = "collect"
    /\ UNCHANGED <<conf, issues, initialCheck, lastCheck, tasks, sent>>
    /\ UNCHANGED <<diffVars, probeVars, evalVars, fanVars, schedVars, extVars>>

\* Mutant: the goroutine reads the global initialCheck when it runs instead
\* of being handed its value when it is started.
PushToSlack_flagAtRun(k) ==
    /\ ~tasks[k].done
    /\ sent' = sent \o pushMessagesToSlack(
                           pushToSlack(tasks[k].newIssues, tasks[k].fixedIssues,
                                       initialCheck),
                           1, conf.SlackWebhooks, tasks[k].cycle)
    /\ tasks' = [tasks EXCEPT ![k].done = TRUE]
    /\ UNCHANGED <<conf, pc, issues, initialCheck, lastCheck, curIssues, cycle>>
    /\ UNCHANGED <<diffVars, probeVars, evalVars, fanVars, schedVars, extVars>>

\* The pushToSlack goroutine of cycle tasks[k].cycle runs: detached, at any
\* time after its start.
PushToSlack(k) ==
    /\ ~tasks[k].done
    /\ sent' = sent \o pushMessagesToSlack(tasks[k].payloads, 1,
                                            conf.SlackWebhooks, tasks[k].cycle)
    /\ tasks' = [tasks EXCEPT ![k].done = TRUE]
    /\ UNCHANGED <<conf, pc, issues, initialCheck, lastCheck, curIssues, cycle>>
    /\ UNCHANGED <<diffVars, probeVars, evalVars, fanVars, schedVars, extVars>>

Next ==
    \/ LoopStart
    \/ RunChecksCollect
    \/ RunChecksNotify
    \/ RunChecksNoWebhook
    \/ RunChecksPublish
    \/ RunChecksReset
    \/ RunChecksStamp
    \/ Tick
    \/ \E k \in 1..Len(tasks) : PushToSlack(k)

Spec == Init /\ [][Next]_vars

-----------------------------------------------------------------------------
(* Claims about difference (SpecDiff) *)

MsgSet(il) == Range(messages(il))

\* How often issue x occurs in il.
Count(il, x) == Cardinality({i \in 1..Len(il) : il[i] = x})

\* s can be obtained from t by deleting elements (greedy match from index i
\* of s and index j of t).
RECURSIVE SubseqFrom(_, _, _, _)
SubseqFrom(s, i, t, j) ==
    IF i > Len(s) THEN TRUE
    ELSE IF j > Len(t) THEN FALSE
    ELSE IF s[i] = t[j] THEN SubseqFrom(s, i + 1, t, j + 1)
    ELSE SubseqFrom(s, i, t, j + 1)

IsSubseq(s, t) == SubseqFrom(s, 1, t, 1)

\* C2: after difference(old, cur), came holds exactly the issues of cur
\* whose message occurs in no issue of old (each as often as in cur), gone
\* exactly the issues of old whose message occurs in no issue of cur; the two
\* are disjoint by message, together they cover the symmetric difference of
\* the message sets, and difference(A, A) is empty on both sides.
C2_DifferencePartition ==
    dpc = "done" =>
        /\ \A x \in DiffIssues :
              /\ Count(came, x) =
                    (IF x.message \in MsgSet(old) THEN 0 ELSE Count(cur, x))
              /\ Count(gone, x) =
                    (IF x.message \in MsgSet(cur) THEN 0 ELSE Count(old, x))
        /\ MsgSet(came) \cap MsgSet(gone) = {}
        /\ MsgSet(came) \cup MsgSet(gone) =
              (MsgSet(old) \ MsgSet(cur)) \cup (MsgSet(cur) \ MsgSet(old))
        /\ (old = cur => came = <<>> /\ gone = <<>>)

\* C2 witness: a call with one message only in old, one only in cur, the new
\* one twice.
C2_Witness ==
    /\ dpc = "done"
    /\ MsgSet(old) = {"a: cannot be reached"}
    /\ MsgSet(cur) = {"b: no TLS enabled"}
    /\ Len(cur) = 2
    /\ Len(came) = 2
    /\ Len(gone) = Len(old)

\* C3: identity is the message alone. A message that occurs in old and in
\* cur is in neither result, whatever the severities of its occurrences;
\* every entry of gone is an issue of old (with old's severity) and every
\* entry of came an issue of cur (with cur's severity).
C3_IdentityIsMessage ==
    dpc = "done" =>
        /\ \A i \in 1..Len(old), j \in 1..Len(cur) :
              old[i].message = cur[j].message =>
                  /\ old[i].message \notin MsgSet(came)
                  /\ old[i].message \notin MsgSet(gone)
        /\ Range(gone) \subseteq Range(old)
        /\ Range(came) \subseteq Range(cur)

\* C3 witness: Warning before, Danger now, same message, and an issue of
\* old that is gone.
C3_Witness ==
    /\ dpc = "done"
    /\ old = <<issueEntry(warning, "a: cannot be reached"),
               issueEntry(danger, "b: no TLS enabled")>>
    /\ cur = <<issueEntry(danger, "a: cannot be reached")>>
    /\ came = <<>>
    /\ gone = <<issueEntry(danger, "b: no TLS enabled")>>

\* C4: came is a subsequence of cur and gone a subsequence of old, each in
\* the order of the snapshot it is taken from, repeated messages included.
C4_ResultsKeepOrder ==
    dpc = "done" => IsSubseq(came, cur) /\ IsSubseq(gone, old)

\* C4 witness: two different issues gone, a repeated message among three.
C4_Witness ==
    /\ dpc = "done"
    /\ Len(gone) = 3
    /\ gone[1] # gone[2]
    /\ gone[1].message = gone[3].message
    /\ Len(came) = 2
    /\ came[1] # came[2]

\* C5: difference(<<>>, B) has came = B and gone empty; difference(A, <<>>)
\* has gone = A and came empty (same elements, same order, duplicates kept).
C5_EmptySideIdentities ==
    dpc = "done" =>
        /\ (old = <<>> => came = cur /\ gone = <<>>)
        /\ (cur = <<>> => gone = old /\ came = <<>>)

\* C5 witness: an empty old and a cur that repeats an issue.
C5_Witness ==
    /\ dpc = "done"
    /\ old = <<>>
    /\ Len(cur) = 3
    /\ cur[1] = cur[3]
    /\ cur[1] # cur[2]
    /\ came = cur

-----------------------------------------------------------------------------
(* Claims about runHealthCheck (SpecProbe) *)

\* The classifications of an attempt's answer.
classOf(o) == generateHealthCheckIssueEntry(check, respOf(o), errOf(o))

\* An attempt's answer is classified clean / non-clean (the same for every
\* order the required headers are ranged over).
CleanAnswer(o) == classOf(o) = {<<>>}
NonCleanAnswer(o) == <<>> \notin classOf(o)

\* The unstable warnings for the answer o.
UnstableOf(o) == {<<unstableIssue(g[1])>> : g \in classOf(o) \ {<<>>}}

\* C7: if an attempt was classified non-clean and retried and the final
\* attempt is clean, runHealthCheck returns one Warning whose message is
\* "Unstable health check: " followed by the message classified from the
\* first failing attempt.
C7_FlakyThenPass ==
    (/\ ppc = "done"
     /\ firstFail # <<>>
     /\ last # <<>>
     /\ CleanAnswer(last[1]))
    => ret \in UnstableOf(firstFail[1])

\* C7 as it holds of the code: the same, for a final attempt that client.Do
\* returned (one the retry policy did not retry).
C7_FlakyThenPassReturned ==
    (/\ ppc = "done"
     /\ firstFail # <<>>
     /\ ~gaveUp
     /\ CleanAnswer(last[1]))
    => ret \in UnstableOf(firstFail[1])

\* Status 500 on the first call, 200 on the second: the unstable warning.
C7_Scenario ==
    /\ ppc = "done"
    /\ check.ResponseStatusCodeEquals = 200
    /\ attempt = 1
    /\ firstFail # <<>>
    /\ firstFail[1].err = "none"
    /\ firstFail[1].StatusCode = 500
    /\ ~firstFail[1].bodyErr
    /\ last[1].err = "none"
    /\ last[1].StatusCode = 200
    /\ ret = <<issueEntry(warning,
          "Unstable health check: https://a/health: received unexpected status code 500")>>

\* C8: an unexpected status code N on every attempt until the retries are
\* used up yields one Danger issue "<url>: received unexpected status code N".
C8_HardFailStatus ==
    (/\ ppc = "done"
     /\ gaveUp
     /\ seen = {last[1].StatusCode}
     /\ last[1].err = "none"
     /\ last[1].StatusCode # check.ResponseStatusCodeEquals)
    => ret = <<issueEntry(danger,
                  check.RequestURL \o ": received unexpected status code "
                  \o ToString(last[1].StatusCode))>>

\* What the code returns in C8's case: the client's give-up error classified
\* as a transport failure.
C8_HardFailAsIs ==
    (ppc = "done" /\ gaveUp)
    => ret = <<issueEntry(danger, check.RequestURL \o ": cannot be reached")>>

PolicyRetries(o) ==
    \/ o.err = "transient"
    \/ /\ o.err = "none"
       /\ o.StatusCode \in {0, 500, 502, 503, 504}

FirstViolation(c, rs, e, is) ==
    LET url == c.RequestURL
        r == rs[1]
        badStatus == r.StatusCode # c.ResponseStatusCodeEquals
        badHeaders == {k \in DOMAIN c.ResponseHeaderContains :
                          r.Header[k] # c.ResponseHeaderContains[k]}
        badBody == ~Contains(r.Body, c.ResponseBodyContains)
    IN  /\ is # <<>> => is[1].issueType = danger
        /\ e => is = <<issueEntry(danger, url \o ": cannot be reached")>>
        /\ ~e /\ r.bodyErr =>
              is[1].message = url \o ": response body could not be read"
        /\ ~e /\ ~r.bodyErr /\ badStatus =>
              is[1].message = url \o ": received unexpected status code "
                              \o ToString(r.StatusCode)
        /\ ~e /\ ~r.bodyErr /\ ~badStatus /\ badHeaders # {} =>
              \E k \in badHeaders :
                  is[1].message = url \o ": expected response header \"" \o k
                                  \o ": " \o c.ResponseHeaderContains[k]
                                  \o "\" could not be found"
        /\ ~e /\ ~r.bodyErr /\ ~badStatus /\ badHeaders = {} /\ badBody =>
              is[1].message = url \o ": expected response body \""
                              \o c.ResponseBodyContains
                              \o "\" could not be found"
        /\ is = <<>> <=>
              ~e /\ ~r.bodyErr /\ ~badStatus /\ badHeaders = {} /\ ~badBody

\* C10: the response evaluator returns only the first violation in the
\* fixed order, every violation is Danger, and the result is clean only if
\* none applies: for the final classification of client.Do's result and for
\* the intermediate classification of the first failing attempt.
C10_FirstViolationOnly ==
    /\ ppc \in {"finish", "done"} /\ last # <<>> =>
          FirstViolation(check, resp, err, issue)
    /\ firstFail # <<>> =>
          FirstViolation(check, respOf(firstFail[1]), errOf(firstFail[1]),
                         intermediateIssue)

\* C10 witness: the expected status, X-Status: degraded where X-Status: ok
\* is required and the required body substring absent as well: exactly the
\* header message, Danger.
C10_Witness ==
    /\ ppc = "finish"
    /\ check.ResponseStatusCodeEquals = 200
    /\ DOMAIN check.ResponseHeaderContains = {"X-Status"}
    /\ check.ResponseBodyContains = "pong"
    /\ ~err
    /\ resp[1].StatusCode = 200
    /\ resp[1].Header["X-Status"] = "degraded"
    /\ resp[1].Body = ""
    /\ issue = <<issueEntry(danger,
          "https://a/health: expected response header \"X-Status: ok\" could not be found")>>

-----------------------------------------------------------------------------
(* Claims about the check loop (Spec) *)

\* The notifications the cycle of task t produces.
NotificationsOf(t) == t.payloads

\* The messages listed, in one of the colours cs, by the notifications the
\* cycle of task t produces.
Listed(t, cs) ==
    LET ns == NotificationsOf(t)
    IN  UNION {{ns[i].Attachments[j].Text :
                   j \in {j \in 1..Len(ns[i].Attachments) :
                             ns[i].Attachments[j].Color \in cs}} :
               i \in 1..Len(ns)}

AppearedIn(t) == Listed(t, {"bad", "warning"})
ResolvedIn(t) == Listed(t, {"good"})

\* The notifications about m, cycle after cycle, from cycle k on.
RECURSIVE KindsFrom(_, _)
KindsFrom(m, k) ==
    IF k > Len(tasks) THEN <<>>
    ELSE (IF m \in AppearedIn(tasks[k]) THEN <<"appeared">> ELSE <<>>)
         \o (IF m \in ResolvedIn(tasks[k]) THEN <<"resolved">> ELSE <<>>)
         \o KindsFrom(m, k + 1)

KindsOf(m) == KindsFrom(m, 1)

Alternates(ks) ==
    \A i \in 1..Len(ks) :
        ks[i] = (IF i % 2 = 1 THEN "appeared" ELSE "resolved")

KnownMessages ==
    UNION {MsgSet(tasks[k].prev) \cup MsgSet(tasks[k].snapshot) :
              k \in 1..Len(tasks)}

\* C1: with a webhook configured, a message that is in the previous and in
\* the current snapshot of a cycle is in no notification of that cycle, and
\* the notifications about a message, taken in the order of the cycles that
\* produce them, alternate appeared, resolved, appeared, ... from appeared.
\* (Stated of the cycles so far each time a cycle has handed its difference
\* to its notification task; nothing it speaks of changes in between.)
C1_OnlyChangesReported ==
    pc = "publish" =>
        /\ \A k \in 1..Len(tasks) :
              (MsgSet(tasks[k].prev) \cap MsgSet(tasks[k].snapshot))
              \cap (AppearedIn(tasks[k]) \cup ResolvedIn(tasks[k])) = {}
        /\ \A m \in KnownMessages : Alternates(KindsOf(m))

\* C1 witness: a message that appeared, was resolved and appeared again,
\* and a cycle in which a message stayed and was not notified.
C1_Witness ==
    /\ \E m \in KnownMessages :
          KindsOf(m) = <<"appeared", "resolved", "appeared">>
    /\ \E k \in 1..Len(tasks) :
          /\ MsgSet(tasks[k].prev) \cap MsgSet(tasks[k].snapshot) # {}
          /\ tasks[k].done

\* C6: in the first cycle the previous snapshot is empty; the difference of
\* the first cycle has every issue of the first snapshot as appeared and
\* nothing as resolved, and no "fixed" notification of the first cycle is
\* ever sent.
C6_FreshProcessHasNoHistory ==
    /\ (cycle = 1 /\ pc \in {"collect", "notify"}) => issues = <<>>
    /\ \A k \in 1..Len(tasks) :
          tasks[k].cycle = 1 =>
              /\ tasks[k].initial
              /\ tasks[k].newIssues = tasks[k].snapshot
              /\ tasks[k].fixedIssues = <<>>
    /\ \A i \in 1..Len(sent) :
          sent[i].cycle = 1 =>
              /\ sent[i].payload.Text # "The following issues and warnings were fixed."
              /\ \A j \in 1..Len(sent[i].payload.Attachments) :
                    sent[i].payload.Attachments[j].Color # "good"

\* C6 witness: the first cycle found two issues and its notifications have
\* been sent.
C6_Witness ==
    /\ Len(tasks) >= 1
    /\ tasks[1].cycle = 1
    /\ tasks[1].done
    /\ Len(tasks[1].snapshot) = 2
    /\ Len(tasks[1].newIssues) = 2
    /\ \E i \in 1..Len(sent) :
          /\ sent[i].cycle = 1
          /\ Len(sent[i].payload.Attachments) > 0

-----------------------------------------------------------------------------
(* SpecEval: generateHealthCheckIssueEntry evaluated repeatedly on one      *)
(* check and one result of client.Do, as successive cycles do for an        *)
(* endpoint that keeps answering the same                                   *)

\* The number of evaluations SpecEval makes of one input.
MaxEvals == 2

\* The checks whose request can be built, with the defaults filled in.
EvalChecks == {withDefaults(c) : c \in {h \in HealthChecks : ~NewRequestFails(h)}}

InitEval ==
    /\ ExtIdle
    /\ DiffIdle
    /\ LoopIdle
    /\ FanIdle
    /\ SchedIdle
    /\ check \in EvalChecks
    /\ resp \in {<<>>} \cup {<<o>> : o \in RespOutcomes}
    /\ err = (resp = <<>>)
    /\ ppc = "idle"
    /\ attempt = 0
    /\ intermediateIssue = <<>>
    /\ issue = <<>>
    /\ ret = <<>>
    /\ firstFail = <<>>
    /\ seen = {}
    /\ gaveUp = FALSE
    /\ last = <<>>
    /\ evals = <<>>

\* One call generateHealthCheckIssueEntry(check, resp, err).
Evaluate ==
    /\ Len(evals) < MaxEvals
    /\ \E g \in generateHealthCheckIssueEntry(check, resp, err) :
          evals' = Append(evals, g)
    /\ UNCHANGED <<diffVars, probeVars, loopVars, fanVars, schedVars, extVars>>

NextEval == Evaluate

SpecEval == InitEval /\ [][NextEval]_vars

\* C11: two evaluations of the same check on the same response never yield
\* different results, also when more than one required header mismatches.
C11_HeaderVerdictDeterministic ==
    \A i, j \in 1..Len(evals) : evals[i] = evals[j]

\* What does hold of repeated evaluations: they agree on everything but the
\* header named, and differ at all only when the status is the expected one,
\* the body was read and at least two required headers mismatch.
C11_OnlyTheHeaderVaries ==
    \A i, j \in 1..Len(evals) :
        evals[i] # evals[j] =>
            /\ ~err
            /\ ~resp[1].bodyErr
            /\ resp[1].StatusCode = check.ResponseStatusCodeEquals
            /\ Cardinality(mismatchedHeaders(check, resp[1])) >= 2
            /\ \E k \in mismatchedHeaders(check, resp[1]) :
                  evals[i] = <<headerIssue(check, k)>>
            /\ \E k \in mismatchedHeaders(check, resp[1]) :
                  evals[j] = <<headerIssue(check, k)>>

-----------------------------------------------------------------------------
(* More claims about runHealthCheck (SpecProbe) *)

\* Every attempt made so far was answered by a response satisfying all
\* assertions of the check.
AllAnswersClean ==
    /\ last # <<>>
    /\ firstFail = <<>>
    /\ CleanAnswer(last[1])

\* C12: whatever status code the check expects, if every response satisfies
\* all its assertions, runHealthCheck returns no issue.
C12_AlwaysPassingIsClean ==
    (ppc = "done" /\ AllAnswersClean) => ret = <<>>

\* What does hold: an always-passing endpoint is clean when the expected
\* status is one the retry policy does not retry, and "cannot be reached"
\* when it is one the policy retries.
C12_CleanUnlessRetried ==
    (ppc = "done" /\ AllAnswersClean)
    => /\ ~PolicyRetries(last[1]) => ret = <<>> /\ attempt = 0
       /\ PolicyRetries(last[1]) =>
             /\ gaveUp
             /\ ret = <<issueEntry(danger,
                           check.RequestURL \o ": cannot be reached")>>

\* The request cannot be constructed from the check: a URL that does not
\* parse or a method that is no valid token.
CannotConstruct ==
    check.RequestURL \in MalformedURLs \/ check.RequestMethod \in InvalidMethods

\* C13: if the request cannot be constructed, runHealthCheck makes no
\* attempt and no retry and returns exactly the Warning
\* "<url>: invalid health check".
C13_InvalidRequestIsWarning ==
    CannotConstruct =>
        /\ ppc \in {"start", "done"}
        /\ attempt = 0
        /\ last = <<>>
        /\ seen = {}
        /\ intermediateIssue = <<>>
        /\ ppc = "done" =>
              ret = <<issueEntry(warning,
                         check.RequestURL \o ": invalid health check")>>

\* C13 witness: the malformed URL with the default method, done.
C13_Witness ==
    /\ ppc = "done"
    /\ check.RequestURL = "::bad"
    /\ check.RequestMethod = "GET"
    /\ last = <<>>
    /\ ret = <<issueEntry(warning, "::bad: invalid health check")>>

\* The text of the error client.Do returns when it gives up.
GiveUpError(c) ==
    c.RequestMethod \o " " \o c.RequestURL \o " giving up after "
    \o ToString(RetryMax + 1) \o " attempts"

\* C14: when client.Do itself fails, with an error of its own and no
\* response (its giving up, which no per-attempt classification saw),
\* runHealthCheck returns the Danger issue
\* "Health check failed unexpectedly: <error>".
C14_ClientErrorUnexpected ==
    (ppc = "done" /\ gaveUp /\ resp = <<>> /\ err)
    => ret = <<issueEntry(danger,
                  "Health check failed unexpectedly: " \o GiveUpError(check))>>

\* What the code returns whenever client.Do returns an error and no
\* response, its giving up included: "<url>: cannot be reached".
C14_ClientErrorAsIs ==
    (ppc = "done" /\ resp = <<>> /\ err)
    => ret = <<issueEntry(danger, check.RequestURL \o ": cannot be reached")>>

\* runHealthCheck runs to its end: client.Do's attempts time out after three
\* seconds, its backoff is finite, and nothing else blocks.
SpecProbeFair == SpecProbe /\ WF_vars(NextProbe)

\* The attempts client.Do has made so far.
AttemptsMade ==
    IF ppc \in {"classify", "finish", "done"} /\ last # <<>>
    THEN attempt + 1 ELSE attempt

\* C15: whatever the endpoint answers, one execution of runHealthCheck makes
\* at most RetryMax + 1 attempts and then ends with a result, clean or one
\* issue.
C15_RetriesBounded ==
    /\ [](/\ attempt <= RetryMax
          /\ AttemptsMade <= RetryMax + 1
          /\ Len(ret) <= 1)
    /\ <>(ppc = "done")

\* C15 witness: the last attempt allowed was made and retried, and the
\* execution has ended with its one issue.
C15_Witness ==
    /\ ppc = "done"
    /\ gaveUp
    /\ AttemptsMade = RetryMax + 1
    /\ Len(ret) = 1

-----------------------------------------------------------------------------
(* SpecFan: runHealthChecks (health_check.go 26-50) as the goroutines it    *)
(* starts, and the lines of runChecks that take its result into the         *)
(* snapshot                                                                 *)

\* The largest number of HTTP probes configured in SpecFan.
MaxProbes == 2

\* The probes of SpecFan: two that can be built and one that cannot.
FanChecks == {HC("https://a/health"), HC("https://b/health"), HC("::bad")}

FanConfs ==
    {[SlackWebhooks |-> <<>>, CheckSchemeManagers |-> {},
      CheckCertificateExpiry |-> <<>>, CheckAtumServers |-> <<>>,
      HealthChecks |-> cs] : cs \in SeqsUpTo(FanChecks, MaxProbes)}

\* Mutant: the wait group is set up for one goroutine too few.
waitGroupAdd_oneShort(n) == IF n > 0 THEN n - 1 ELSE 0

\* Line 28: waitGroup.Add(len(checks)).
waitGroupAdd(n) == n

\* Mutant: the channel has room for one result less than there are probes.
chanCap_oneShort(n) == IF n > 0 THEN n - 1 ELSE 0

\* Line 29: make(chan *issueEntry, len(checks)).
chanCap(n) == n

\* Line 41: waitGroup.Wait() returns once the counter is zero.
WaitReturns(wg) == wg = 0

\* Mutant: the goroutine reads the loop variable itself, which the range
\* loop has moved on to the check launched last.
probedCheck_captured(cs, i, loopIdx) == cs[loopIdx]

\* Line 32: check := check gives goroutine i its own copy of checks[i].
probedCheck(cs, i, loopIdx) == cs[i]

\* The channel has been closed (line 42).
chanClosed == hpc \in {"drain", "publish", "published"}

InitFan ==
    /\ ExtIdle
    /\ DiffIdle
    /\ ProbeIdle
    /\ EvalIdle
    /\ SchedIdle
    /\ conf \in FanConfs
    /\ pc = "idle"
    /\ issues = <<>>
    /\ initialCheck = FALSE
    /\ lastCheck = 0
    /\ curIssues = <<>>
    /\ cycle = 0
    /\ tasks = <<>>
    /\ sent = <<>>
    /\ hpc = "start"
    /\ launched = 0
    /\ taskpc = <<>>
    /\ taskRet = <<>>
    /\ issueChan = <<>>
    /\ waitGroup = 0
    /\ hcIssues = <<>>

\* Lines 27-29.
FanStart ==
    /\ hpc = "start"
    /\ waitGroup' = waitGroupAdd(Len(conf.HealthChecks))
    /\ issueChan' = <<>>
    /\ taskpc' = [i \in 1..Len(conf.HealthChecks) |-> "none"]
    /\ taskRet' = [i \in 1..Len(conf.HealthChecks) |-> <<>>]
    /\ hpc' = "range"
    /\ UNCHANGED <<launched, hcIssues>>
    /\ UNCHANGED <<diffVars, probeVars, loopVars, evalVars, schedVars, extVars>>

\* Lines 31-38: one round of the range loop starts the next goroutine; the
\* sleep that follows lets the others run.
FanLaunch ==
    /\ hpc = "range"
    /\ launched < Len(conf.HealthChecks)
    /\ launched' = launched + 1
    /\ taskpc' = [taskpc EXCEPT ![launched + 1] = "run"]
    /\ UNCHANGED <<hpc, taskRet, issueChan, waitGroup, hcIssues>>
    /\ UNCHANGED <<diffVars, probeVars, loopVars, evalVars, schedVars, extVars>>

\* Line 39: the range loop is through.
FanLoopEnd ==
    /\ hpc = "range"
    /\ launched = Len(conf.HealthChecks)
    /\ hpc' = "wait"
    /\ UNCHANGED <<launched, taskpc, taskRet, issueChan, waitGroup, hcIssues>>
    /\ UNCHANGED <<diffVars, probeVars, loopVars, evalVars, schedVars, extVars>>

\* Line 41.
FanWait ==
    /\ hpc = "wait"
    /\ WaitReturns(waitGroup)
    /\ hpc' = "close"
    /\ UNCHANGED <<launched, taskpc, taskRet, issueChan, waitGroup, hcIssues>>
    /\ UNCHANGED <<diffVars, probeVars, loopVars, evalVars, schedVars, extVars>>

\* Line 42.
FanClose ==
    /\ hpc = "close"
    /\ hpc' = "drain"
    /\ UNCHANGED <<launched, taskpc, taskRet, issueChan, waitGroup, hcIssues>>
    /\ UNCHANGED <<diffVars, probeVars, loopVars, evalVars, schedVars, extVars>>

\* Lines 44-48: one value received from the channel; a nil is left out.
FanReceive ==
    /\ hpc = "drain"
    /\ issueChan # <<>>
    /\ hcIssues' = hcIssues \o Head(issueChan)
    /\ issueChan' = Tail(issueChan)
    /\ UNCHANGED <<hpc, launched, taskpc, taskRet, waitGroup>>
    /\ UNCHANGED <<diffVars, probeVars, loopVars, evalVars, schedVars, extVars>>

\* Line 49 and runChecks 224: the closed channel is empty, runHealthChecks
\* returns and its result is appended to curIssues.
FanReturn ==
    /\ hpc = "drain"
    /\ issueChan = <<>>
    /\ curIssues' = curIssues \o hcIssues
    /\ hpc' = "publish"
    /\ UNCHANGED <<conf, pc, issues, initialCheck, lastCheck, cycle, tasks, sent>>
    /\ UNCHANGED <<launched, taskpc, taskRet, issueChan, waitGroup, hcIssues>>
    /\ UNCHANGED <<diffVars, probeVars, evalVars, schedVars, extVars>>

\* runChecks 233.
FanPublish ==
    /\ hpc = "publish"
    /\ issues' = curIssues
    /\ hpc' = "published"
    /\ UNCHANGED <<conf, pc, initialCheck, lastCheck, curIssues, cycle, tasks,
                   sent>>
    /\ UNCHANGED <<launched, taskpc, taskRet, issueChan, waitGroup, hcIssues>>
    /\ UNCHANGED <<diffVars, probeVars, evalVars, schedVars, extVars>>

\* Line 34, the call: goroutine i runs runHealthCheck on its check.
TaskRun(i) ==
    /\ hpc # "panic"
    /\ taskpc[i] = "run"
    /\ \E r \in runHealthCheckReturns(
                    probedCheck(conf.HealthChecks, i, launched), LoopOutcomes) :
          taskRet' = [taskRet EXCEPT ![i] = r]
    /\ taskpc' = [taskpc EXCEPT ![i] = "send"]
    /\ UNCHANGED <<hpc, launched, issueChan, waitGroup, hcIssues>>
    /\ UNCHANGED <<diffVars, probeVars, loopVars, evalVars, schedVars, extVars>>

\* Line 34, the send: it waits while the buffer is full and panics on a
\* closed channel, which ends the process.
TaskSend(i) ==
    /\ hpc # "panic"
    /\ taskpc[i] = "send"
    /\ IF chanClosed
       THEN /\ hpc' = "panic"
            /\ UNCHANGED <<taskpc, issueChan>>
       ELSE /\ Len(issueChan) < chanCap(Len(conf.HealthChecks))
            /\ issueChan' = Append(issueChan, taskRet[i])
            /\ taskpc' = [taskpc EXCEPT ![i] = "done"]
            /\ hpc' = hpc
    /\ UNCHANGED <<launched, taskRet, waitGroup, hcIssues>>
    /\ UNCHANGED <<diffVars, probeVars, loopVars, evalVars, schedVars, extVars>>

\* Line 35: waitGroup.Done(), which panics on a negative counter.
TaskDone(i) ==
    /\ hpc # "panic"
    /\ taskpc[i] = "done"
    /\ IF waitGroup = 0
       THEN /\ hpc' = "panic"
            /\ UNCHANGED <<taskpc, waitGroup>>
       ELSE /\ waitGroup' = waitGroup - 1
            /\ taskpc' = [taskpc EXCEPT ![i] = "finished"]
            /\ hpc' = hpc
    /\ UNCHANGED <<launched, taskRet, issueChan, hcIssues>>
    /\ UNCHANGED <<diffVars, probeVars, loopVars, evalVars, schedVars, extVars>>

NextFan ==
    \/ FanStart
    \/ FanLaunch
    \/ FanLoopEnd
    \/ FanWait
    \/ FanClose
    \/ FanReceive
    \/ FanReturn
    \/ FanPublish
    \/ \E i \in 1..Len(taskpc) : TaskRun(i)
    \/ \E i \in 1..Len(taskpc) : TaskSend(i)
    \/ \E i \in 1..Len(taskpc) : TaskDone(i)

SpecFan == InitFan /\ [][NextFan]_vars

\* Every goroutine and the collecting loop get to run: runHealthCheck ends
\* (C15) and the scheduler starves no goroutine.
SpecFanFair == SpecFan /\ WF_vars(NextFan)

-----------------------------------------------------------------------------
(* Claims about runHealthChecks (SpecFan) *)

\* The probes whose goroutine returned the issue x.
ProbesReturning(x) == {i \in 1..Len(taskRet) : taskRet[i] = <<x>>}

\* The issues the goroutines returned.
ReturnedIssues == {taskRet[i][1] : i \in {j \in 1..Len(taskRet) : taskRet[j] # <<>>}}

\* C16: runHealthChecks gets past its wait only when every goroutine it
\* started has completed, and its result holds each non-nil return of a
\* probe exactly once and nothing else, so at most one issue per probe,
\* whatever the order the probes complete in.
C16_AllProbesCollected ==
    /\ hpc # "panic"
    /\ hpc \in {"close", "drain", "publish", "published"} =>
          /\ launched = Len(conf.HealthChecks)
          /\ \A i \in 1..Len(taskpc) : taskpc[i] = "finished"
    /\ hpc \in {"publish", "published"} =>
          /\ Range(hcIssues) = ReturnedIssues
          /\ \A x \in ReturnedIssues :
                Count(hcIssues, x) = Cardinality(ProbesReturning(x))
          /\ Len(hcIssues) <= Len(conf.HealthChecks)

\* C16 witness: two probes, both non-clean, collected in the reverse of the
\* order they were started in.
C16_Witness ==
    /\ hpc = "publish"
    /\ Len(conf.HealthChecks) = 2
    /\ conf.HealthChecks[1].RequestURL = "https://a/health"
    /\ conf.HealthChecks[2].RequestURL = "https://b/health"
    /\ hcIssues = <<issueEntry(danger, "https://b/health: cannot be reached"),
                    issueEntry(danger, "https://a/health: cannot be reached")>>

\* The result of the goroutines is one of the results of the operator
\* runHealthChecks, which Spec uses for the same code.
FanRefinesOperator ==
    hpc \in {"publish", "published"} =>
        hcIssues \in runHealthChecks(conf.HealthChecks)

\* C20: no outcome of a probe, the request that cannot be built included,
\* ends the process or reaches another probe's result: each goroutine
\* returns a result of its own check, and every cycle started comes to
\* publish a snapshot holding every issue the probes returned.
C20_FailureIsolation ==
    /\ [](/\ hpc # "panic"
          /\ \A i \in 1..Len(taskpc) :
                taskpc[i] \in {"send", "done", "finished"} =>
                    taskRet[i] \in runHealthCheckReturns(conf.HealthChecks[i],
                                                        LoopOutcomes)
          /\ hpc = "published" =>
                /\ ReturnedIssues \subseteq Range(issues)
                /\ Len(issues) = Cardinality({i \in 1..Len(taskRet) :
                                                 taskRet[i] # <<>>}))
    /\ <>(hpc = "published")

\* C20 witness: a probe whose request cannot be built and an unreachable
\* endpoint, both in the published snapshot.
C20_Witness ==
    /\ hpc = "published"
    /\ Len(conf.HealthChecks) = 2
    /\ conf.HealthChecks[1].RequestURL = "::bad"
    /\ conf.HealthChecks[2].RequestURL = "https://a/health"
    /\ issues = <<issueEntry(danger, "https://a/health: cannot be reached"),
                  issueEntry(warning, "::bad: invalid health check")>>

-----------------------------------------------------------------------------
(* SpecSched: the ticker and the check loop of main() (main.go 167-176) in  *)
(* time; runChecks is followed from its call to its return only             *)

\* conf.Interval, in time units.
Interval == 2

\* The longest a runChecks takes in SpecSched: more than two intervals.
MaxDuration == 5

\* How long SpecSched follows the loop.
MaxTime == 9

\* Mutant: a tick is kept only if the loop is waiting for it when the
\* ticker fires.
tickAfterFire_unbuffered(buf, p) == buf \/ p = "receive"

\* time.NewTicker's channel holds one tick: when the ticker fires the tick
\* is put there, and dropped if the earlier one has not been received.
tickAfterFire(buf, p) == TRUE

\* Mutant: every tick starts a runChecks, whether the last one has returned
\* or not.
loopReceives_everyTick(p, buf) == buf

\* Line 174: the loop receives from ticker.C only once runChecks has
\* returned, and waits there for a tick.
loopReceives(p, buf) == p = "receive" /\ buf

InitSched ==
    /\ ExtIdle
    /\ DiffIdle
    /\ ProbeIdle
    /\ EvalIdle
    /\ FanIdle
    /\ conf = [SlackWebhooks |-> <<>>, CheckSchemeManagers |-> {},
               CheckCertificateExpiry |-> <<>>, CheckAtumServers |-> <<>>,
               HealthChecks |-> <<>>]
    /\ pc = "start"
    /\ issues = <<>>
    /\ initialCheck = FALSE
    /\ lastCheck = 0
    /\ curIssues = <<>>
    /\ cycle = 0
    /\ tasks = <<>>
    /\ sent = <<>>
    /\ now = 0
    /\ tickBuf = FALSE
    /\ left = 0
    /\ started = <<>>
    /\ ended = <<>>

\* Lines 168-173: the ticker is created, the loop's goroutine starts and
\* calls runChecks, which is going to take d.
SchedStart ==
    /\ pc = "start"
    /\ initialCheck' = TRUE
    /\ cycle' = 1
    /\ started' = Append(started, now)
    /\ \E d \in 0..MaxDuration : left' = d
    /\ pc' = "running"
    /\ UNCHANGED <<conf, issues, lastCheck, curIssues, tasks, sent>>
    /\ UNCHANGED <<now, tickBuf, ended>>
    /\ UNCHANGED <<diffVars, probeVars, evalVars, fanVars, extVars>>

\* One unit of time passes while runChecks works or the loop waits for a
\* tick; the ticker fires at every multiple of Interval since its creation.
Elapse ==
    /\ now < MaxTime
    /\ \/ pc = "running" /\ left > 0
       \/ pc = "receive" /\ ~tickBuf
    /\ now' = now + 1
    /\ left' = IF pc = "running" THEN left - 1 ELSE left
    /\ tickBuf' = IF (now + 1) % Interval = 0
                  THEN tickAfterFire(tickBuf, pc)
                  ELSE tickBuf
    /\ UNCHANGED <<started, ended>>
    /\ UNCHANGED <<diffVars, probeVars, loopVars, evalVars, fanVars, extVars>>

\* runChecks 233-236: the snapshot is published and runChecks returns.
RunChecksEnd ==
    /\ pc = "running"
    /\ left = 0
    /\ issues' = curIssues
    /\ initialCheck' = FALSE
    /\ lastCheck' = now
    /\ ended' = Append(ended, now)
    /\ pc' = "receive"
    /\ UNCHANGED <<conf, curIssues, cycle, tasks, sent>>
    /\ UNCHANGED <<now, tickBuf, left, started>>
    /\ UNCHANGED <<diffVars, probeVars, evalVars, fanVars, extVars>>

\* Lines 173-174: the tick is received and the loop calls runChecks again.
Receive ==
    /\ loopReceives(pc, tickBuf)
    /\ tickBuf' = FALSE
    /\ cycle' = cycle + 1
    /\ started' = Append(started, now)
    /\ \E d \in 0..MaxDuration : left' = d
    /\ pc' = "running"
    /\ UNCHANGED <<conf, issues, initialCheck, lastCheck, curIssues, tasks, sent>>
    /\ UNCHANGED <<now, ended>>
    /\ UNCHANGED <<diffVars, probeVars, evalVars, fanVars, extVars>>

NextSched ==
    \/ SchedStart
    \/ Elapse
    \/ RunChecksEnd
    \/ Receive

SpecSched == InitSched /\ [][NextSched]_vars

-----------------------------------------------------------------------------
(* Claims about the scheduling of cycles (SpecSched) *)

\* C17: at most one runChecks is in progress at any time, and a runChecks
\* begins only when the one before it has returned, also when that one took
\* longer than the interval.
C17_CyclesNeverOverlap ==
    /\ Len(started) - Len(ended) \in {0, 1}
    /\ pc = "running" <=> Len(started) = Len(ended) + 1
    /\ \A k \in 1..Len(ended) : started[k] <= ended[k]
    /\ \A k \in 1..(Len(started) - 1) :
          k <= Len(ended) /\ ended[k] <= started[k + 1]

\* C17 witness: the first runChecks took more than two intervals, ticks
\* fired meanwhile, and the second began when the first had returned.
C17_Witness ==
    /\ Len(started) = 2
    /\ Len(ended) = 1
    /\ ended[1] - started[1] > 2 * Interval
    /\ started[2] = ended[1]
    /\ pc = "running"

NextTickAfter(t) == ((t \div Interval) + 1) * Interval

Max(a, b) == IF a >= b THEN a ELSE b

-----------------------------------------------------------------------------
(* Claims about the snapshot of a cycle (Spec) *)

\* The place of an issue's category in the order scheme managers (1),
\* certificates (2), timestamp servers (3), HTTP health checks (4), told from
\* the message as the checks of the model word it.
CategoryRank(m) ==
    IF Contains(m, "irma scheme verify: ") THEN 1
    ELSE IF Contains(m, ": certificate from ") THEN 2
    ELSE IF Contains(m, ": timestamp ") THEN 3
    ELSE 4

\* C19: the snapshot runChecks has collected is a result of the scheme
\* manager check, then one of the certificate check, then one of the
\* timestamp check, then one of the HTTP probes; no issue of a later
\* category stands before one of an earlier category.
C19_CategoryOrder ==
    pc = "notify" =>
        /\ \E a \in checkSchemeManagers(conf), b \in checkCertificateExpiry(conf),
              c \in checkAtumServers(conf),
              d \in runHealthChecks(conf.HealthChecks) :
              curIssues = a \o b \o c \o d
        /\ \A i, j \in 1..Len(curIssues) :
              i < j => CategoryRank(curIssues[i].message)
                       <= CategoryRank(curIssues[j].message)

\* C19 witness: a snapshot with an issue of each of the four categories.
C19_Witness ==
    /\ pc = "notify"
    /\ {CategoryRank(curIssues[i].message) : i \in 1..Len(curIssues)} = 1..4
    /\ CategoryRank(curIssues[1].message) = 1
    /\ CategoryRank(curIssues[Len(curIssues)].message) = 4

-----------------------------------------------------------------------------
(* Claims about the stored snapshot and the notifications (Spec) *)

\* The snapshot cycle k published, <<>> before the first cycle; known from
\* the record of the cycle's pushToSlack task.
PublishedBy(k) == IF k = 0 THEN <<>> ELSE tasks[k].snapshot

\* C21: issues is written only by runChecks' line 233, once in each cycle,
\* when the whole snapshot has been collected and the difference against
\* the old one has been taken: the difference of cycle k is the one between
\* the snapshot cycle k-1 published and the whole snapshot of cycle k.
C21_PublishedAfterDiff ==
    /\ [](/\ pc \in {"reset", "stamp", "tick"} => issues = curIssues
          /\ Len(conf.SlackWebhooks) > 0 =>
                /\ pc \in {"collect", "notify", "publish"} =>
                      issues = PublishedBy(cycle - 1)
                /\ pc = "publish" => tasks[cycle].snapshot = curIssues
                /\ \A k \in 1..Len(tasks) :
                      /\ tasks[k].cycle = k
                      /\ tasks[k].prev = PublishedBy(k - 1)
                      /\ tasks[k].newIssues =
                            difference(PublishedBy(k - 1), tasks[k].snapshot).came
                      /\ tasks[k].fixedIssues =
                            difference(PublishedBy(k - 1), tasks[k].snapshot).gone)
    /\ [][issues' # issues => pc = "publish" /\ pc' = "reset"]_vars
    /\ [][pc = "publish" /\ pc' # pc => issues' = curIssues]_vars

\* C21 witness: the second cycle has taken its difference against the
\* non-empty snapshot of the first, which is still the stored one, and its
\* own snapshot is another.
C21_Witness ==
    /\ pc = "publish"
    /\ cycle = 2
    /\ Len(tasks) = 2
    /\ tasks[1].snapshot # <<>>
    /\ issues = tasks[1].snapshot
    /\ tasks[2].prev = tasks[1].snapshot
    /\ tasks[2].snapshot # tasks[1].snapshot
    /\ tasks[2].fixedIssues # <<>>

-----------------------------------------------------------------------------
(* SpecPage: handler (main.go 184-193), run by the HTTP server in a         *)
(* goroutine of its own, while runChecks publishes its snapshot (233-235).  *)
(* handler reads the globals issues and lastCheck, runChecks writes them,   *)
(* and nothing orders the two.                                              *)

\* The number of page requests SpecPage follows.
MaxReads == 2

\* The longest snapshot in SpecPage.
MaxPageLen == 2

\* What a read of the slice issues can give while line 233 assigns cur to
\* it, old being its value before: a slice is a pointer and a length, read
\* and written word by word, so that besides old and cur the read can pair
\* the new array with the old length or the old array with the new length
\* (given here where that length lies within the array).
racyRead(o, c) ==
    {o, c}
    \cup (IF Len(o) <= Len(c) THEN {SubSeq(c, 1, Len(o))} ELSE {})
    \cup (IF Len(c) <= Len(o) THEN {SubSeq(o, 1, Len(c))} ELSE {})

InitPage ==
    /\ ProbeIdle
    /\ EvalIdle
    /\ FanIdle
    /\ SchedIdle
    /\ NotifyIdle
    /\ TargetIdle
    /\ SchemeIdle
    /\ RenewIdle
    /\ CancelIdle
    /\ conf = [SlackWebhooks |-> <<>>, CheckSchemeManagers |-> {},
               CheckCertificateExpiry |-> <<>>, CheckAtumServers |-> <<>>,
               HealthChecks |-> <<>>]
    /\ pc = "publish"
    /\ issues \in SeqsUpTo(DiffIssues, MaxPageLen)
    /\ curIssues \in SeqsUpTo(DiffIssues, MaxPageLen)
    /\ initialCheck = FALSE
    /\ lastCheck = 1
    /\ cycle = 2
    /\ tasks = <<>>
    /\ sent = <<>>
    /\ pages = <<>>
    /\ old = issues
    /\ cur = curIssues
    /\ came = <<>>
    /\ gone = <<>>
    /\ dpc = "idle"

\* handler: the page is rendered from lastCheck and issues.messages(). at
\* and stored record where runChecks stood and what issues held.
Handler ==
    /\ Len(pages) < MaxReads
    /\ \E il \in (IF pc = "publish" THEN racyRead(issues, curIssues)
                  ELSE {issues}) :
          pages' = Append(pages, [at |-> pc,
                                  stored |-> issues,
                                  collected |-> curIssues,
                                  LastCheck |-> lastCheck,
                                  Issues |-> messages(il)])
    /\ UNCHANGED <<diffVars, probeVars, loopVars, evalVars, fanVars, schedVars>>
    /\ UNCHANGED <<notifyVars, targetVars, schemeVars, renewVars, cancelVars>>

NextPage ==
    \/ RunChecksPublish
    \/ RunChecksReset
    \/ RunChecksStamp
    \/ Handler

SpecPage == InitPage /\ [][NextPage]_vars

\* C22: every page shows a whole snapshot of a cycle: the stored one, or,
\* for a read that meets the publication, the one being published; never a
\* part of a snapshot or a mix of two.
C22_PageShowsWholeSnapshot ==
    \A i \in 1..Len(pages) :
        \/ pages[i].Issues = messages(pages[i].stored)
        \/ /\ pages[i].at = "publish"
           /\ pages[i].Issues = messages(pages[i].collected)

\* What does hold: a read that does not meet the assignment of line 233
\* shows the stored snapshot, whole.
C22_WholeUnlessRacing ==
    \A i \in 1..Len(pages) :
        pages[i].at # "publish" => pages[i].Issues = messages(pages[i].stored)

-----------------------------------------------------------------------------
(* Claims about the restart notice (Spec) *)

RestartText == "I just (re)started, so I might repeat some known issues."

\* The places of the restart notice among the payloads ps.
NoticesIn(ps) == {i \in 1..Len(ps) : ps[i].Text = RestartText}

\* The places in sent of the sends of cycle k.
SendsOf(k) == {i \in 1..Len(sent) : sent[i].cycle = k}

\* C23: a cycle's notifications hold the restart notice iff the cycle is
\* the first since the start and something appeared in it; the notice has
\* no attachments and goes first; so no cycle after the first sends it, and
\* it is sent no more than once to a webhook in the life of the process.
C23_RestartNoticeOnlyFirst ==
    /\ \A k \in 1..Len(tasks) :
          /\ tasks[k].initial <=> tasks[k].cycle = 1
          /\ NoticesIn(tasks[k].payloads) # {}
                <=> (tasks[k].cycle = 1 /\ tasks[k].newIssues # <<>>)
          /\ NoticesIn(tasks[k].payloads) \subseteq {1}
          /\ \A i \in NoticesIn(tasks[k].payloads) :
                tasks[k].payloads[i].Attachments = <<>>
    /\ \A i \in 1..Len(sent) :
          sent[i].payload.Text = RestartText =>
              /\ sent[i].cycle = 1
              /\ sent[i].payload.Attachments = <<>>
              /\ \A j \in SendsOf(1) : j >= i
    /\ Cardinality({i \in 1..Len(sent) : sent[i].payload.Text = RestartText})
          <= Len(conf.SlackWebhooks)

\* C23 witness: the first cycle sent the notice and then its danger
\* notification; the second found new issues and sent no notice.
C23_Witness ==
    /\ Len(tasks) = 2
    /\ tasks[1].done /\ tasks[2].done
    /\ tasks[2].newIssues # <<>>
    /\ Cardinality(SendsOf(1)) >= 2
    /\ \E i \in SendsOf(1) :
          /\ sent[i].payload.Text = RestartText
          /\ i + 1 \in SendsOf(1)
          /\ sent[i + 1].payload.Text = "<!channel> New issues discovered."
    /\ \A i \in SendsOf(2) : sent[i].payload.Text # RestartText
    /\ SendsOf(2) # {}

-----------------------------------------------------------------------------
(* SpecNotify: pushToSlack (main.go 238-293) on every difference, its calls *)
(* of pushMessageToSlack (295-308) followed one slack.Send at a time; each  *)
(* send succeeds or fails                                                   *)

\* The longest list of appeared issues and of fixed issues in SpecNotify.
MaxAppeared == 2
MaxFixed == 2

AppearedIssues == [issueType : IssueTypes, message : {"X", "Y"}]

FixedIssues == {issueEntry(danger, "Z"), issueEntry(warning, "W")}

NotifyHooks == <<"https://hooks/1", "https://hooks/2">>

\* The calls of pushMessageToSlack that pushToSlack makes for nargs.
calls == pushToSlack(nargs.newIssues, nargs.fixedIssues, nargs.initial)

\* Mutant: a failed send ends pushMessageToSlack, the webhooks after it are
\* left out.
afterSend_returnOnError(i, h, n, ok) ==
    IF ok /\ h < n THEN <<i, h + 1>> ELSE <<i + 1, 1>>

\* Lines 296-307: after the send to webhook h of n, failed (logged,
\* continue) or not, the range loop goes on to the next webhook, and
\* pushToSlack to its next call after the last.
afterSend(i, h, n, ok) ==
    IF h < n THEN <<i, h + 1>> ELSE <<i + 1, 1>>

InitNotify ==
    /\ DiffIdle
    /\ ProbeIdle
    /\ EvalIdle
    /\ FanIdle
    /\ SchedIdle
    /\ PageIdle
    /\ TargetIdle
    /\ SchemeIdle
    /\ RenewIdle
    /\ CancelIdle
    /\ conf = [SlackWebhooks |-> NotifyHooks, CheckSchemeManagers |-> {},
               CheckCertificateExpiry |-> <<>>, CheckAtumServers |-> <<>>,
               HealthChecks |-> <<>>]
    /\ pc = "idle"
    /\ issues = <<>>
    /\ initialCheck = FALSE
    /\ lastCheck = 0
    /\ curIssues = <<>>
    /\ cycle = 0
    /\ tasks = <<>>
    /\ sent = <<>>
    /\ nargs \in [newIssues : SeqsUpTo(AppearedIssues, MaxAppeared),
                  fixedIssues : SeqsUpTo(FixedIssues, MaxFixed),
                  initial : BOOLEAN]
    /\ npos = <<0, 0>>
    /\ delivered = <<>>
    /\ logged = <<>>

\* pushToSlack is entered and comes to its first call of pushMessageToSlack,
\* or to its end if it makes none.
NotifyStart ==
    /\ npos = <<0, 0>>
    /\ npos' = <<1, 1>>
    /\ UNCHANGED <<nargs, delivered, logged>>
    /\ UNCHANGED <<diffVars, probeVars, loopVars, evalVars, fanVars, schedVars>>
    /\ UNCHANGED <<pageVars, targetVars, schemeVars, renewVars, cancelVars>>

\* Line 303: slack.Send to the webhook at hand succeeds.
SendOK ==
    /\ npos[1] \in 1..Len(calls)
    /\ delivered' = Append(delivered,
                           [i |-> npos[1], h |-> npos[2],
                            url |-> conf.SlackWebhooks[npos[2]],
                            payload |-> calls[npos[1]]])
    /\ npos' = afterSend(npos[1], npos[2], Len(conf.SlackWebhooks), TRUE)
    /\ UNCHANGED <<nargs, logged>>
    /\ UNCHANGED <<diffVars, probeVars, loopVars, evalVars, fanVars, schedVars>>
    /\ UNCHANGED <<pageVars, targetVars, schemeVars, renewVars, cancelVars>>

\* Lines 303-306: slack.Send fails; the error is logged and the loop
\* continues.
SendFail ==
    /\ npos[1] \in 1..Len(calls)
    /\ logged' = Append(logged,
                        [i |-> npos[1], h |-> npos[2],
                         url |-> conf.SlackWebhooks[npos[2]],
                         payload |-> calls[npos[1]]])
    /\ npos' = afterSend(npos[1], npos[2], Len(conf.SlackWebhooks), FALSE)
    /\ UNCHANGED <<nargs, delivered>>
    /\ UNCHANGED <<diffVars, probeVars, loopVars, evalVars, fanVars, schedVars>>
    /\ UNCHANGED <<pageVars, targetVars, schemeVars, renewVars, cancelVars>>

NextNotify ==
    \/ NotifyStart
    \/ SendOK
    \/ SendFail

SpecNotify == InitNotify /\ [][NextNotify]_vars

\* pushToSlack has returned.
NotifyDone == npos[1] > Len(calls)

\* The sends made so far, failed or not.
Attempts == Range(delivered) \cup Range(logged)

\* The payloads handed to slack.Send for webhook h, in the order of the
\* calls.
RECURSIVE payloadsFrom(_, _)
payloadsFrom(h, i) ==
    IF \A e \in Attempts : ~(e.h = h /\ e.i >= i) THEN <<>>
    ELSE (IF \E e \in Attempts : e.h = h /\ e.i = i
          THEN <<(CHOOSE e \in Attempts : e.h = h /\ e.i = i).payload>>
          ELSE <<>>)
         \o payloadsFrom(h, i + 1)

PayloadsTo(h) == payloadsFrom(h, 1)

-----------------------------------------------------------------------------
(* Claims about the notifications of one difference (SpecNotify) *)

UrgentText == "<!channel> New issues discovered."
WarningText == "New warnings discovered."
FixedText == "The following issues and warnings were fixed."

\* A notification is urgent if its text mentions the channel.
Urgent(p) == Len(p.Text) >= 10 /\ SubSeq(p.Text, 1, 10) = "<!channel>"

\* The messages a notification lists, in order, and their colours.
TextsOf(p) == [k \in 1..Len(p.Attachments) |-> p.Attachments[k].Text]
ColorsOf(p) == {p.Attachments[k].Color : k \in 1..Len(p.Attachments)}

\* The places in ps of the notifications with the text t.
WithText(ps, t) == {i \in 1..Len(ps) : ps[i].Text = t}

\* C24: to every webhook one urgent notification goes iff a Danger issue
\* appeared, listing exactly the appeared Danger messages, and one other,
\* not urgent, iff a Warning issue appeared, listing exactly the appeared
\* Warning messages. For appeared = [Danger X, Warning Y], nothing resolved
\* and not the first cycle these two are all that is sent.
C24_SplitBySeverity ==
    NotifyDone =>
        \A h \in 1..Len(conf.SlackWebhooks) :
            LET ps == PayloadsTo(h)
                urgent == {i \in 1..Len(ps) : Urgent(ps[i])}
                warn == WithText(ps, WarningText)
                dangers == filter(nargs.newIssues, danger)
                warnings == filter(nargs.newIssues, warning)
            IN  /\ Cardinality(urgent) = IF dangers # <<>> THEN 1 ELSE 0
                /\ \A i \in urgent : /\ TextsOf(ps[i]) = dangers
                                     /\ ColorsOf(ps[i]) = {"bad"}
                /\ Cardinality(warn) = IF warnings # <<>> THEN 1 ELSE 0
                /\ \A i \in warn : /\ TextsOf(ps[i]) = warnings
                                   /\ ColorsOf(ps[i]) = {"warning"}
                                   /\ ~Urgent(ps[i])
                /\ \A i \in 1..Len(ps) :
                      ColorsOf(ps[i]) \cap {"bad", "warning"} # {}
                          => i \in urgent \cup warn
                /\ (/\ nargs.newIssues = <<issueEntry(danger, "X"),
                                           issueEntry(warning, "Y")>>
                    /\ nargs.fixedIssues = <<>>
                    /\ ~nargs.initial)
                   => ps = <<payload(UrgentText,
                                     <<[Text |-> "X", Color |-> "bad"]>>),
                             payload(WarningText,
                                     <<[Text |-> "Y", Color |-> "warning"]>>)>>

\* C24 witness: appeared = [Danger X, Warning Y], nothing resolved, not the
\* first cycle; the two notifications have gone to both webhooks.
C24_Witness ==
    /\ NotifyDone
    /\ nargs = [newIssues |-> <<issueEntry(danger, "X"), issueEntry(warning, "Y")>>,
                fixedIssues |-> <<>>, initial |-> FALSE]
    /\ Len(delivered) = 4
    /\ logged = <<>>
    /\ Urgent(delivered[1].payload)
    /\ TextsOf(delivered[1].payload) = <<"X">>
    /\ delivered[4].payload.Text = WarningText
    /\ TextsOf(delivered[4].payload) = <<"Y">>


\* The urgent notifications among ps.
UrgentIn(ps) == {i \in 1..Len(ps) : Urgent(ps[i])}

\* C25 as stated: the text of the Danger notification depends on the
\* first-cycle flag, so the text sent differs from the one the same
\* difference gets under the other value of the flag.
C25_FramingDependsOnFlag ==
    (NotifyDone /\ filter(nargs.newIssues, danger) # <<>>) =>
        \A h \in 1..Len(conf.SlackWebhooks) :
            LET ps == PayloadsTo(h)
                other == pushToSlack(nargs.newIssues, nargs.fixedIssues,
                                     ~nargs.initial)
            IN  \A i \in UrgentIn(ps) : \A j \in UrgentIn(other) :
                    ps[i].Text # other[j].Text

\* C25: the Danger notification carries the same text in every cycle,
\* "<!channel> New issues discovered."; the first cycle is told apart only
\* by the restart notice, which is sent before it, as the first
\* notification, exactly when the flag is set and something appeared.
C25_SameTextNoticeBefore ==
    NotifyDone =>
        \A h \in 1..Len(conf.SlackWebhooks) :
            LET ps == PayloadsTo(h)
                notices == WithText(ps, RestartText)
            IN  /\ \A i \in UrgentIn(ps) : ps[i].Text = UrgentText
                /\ notices = IF nargs.initial /\ nargs.newIssues # <<>>
                             THEN {1} ELSE {}
                /\ \A i \in notices : /\ ps[i].Attachments = <<>>
                                      /\ \A j \in UrgentIn(ps) : i < j

\* C25 witness: a first-cycle difference with a Danger issue; the restart
\* notice went out first and the Danger notification after it, with the
\* text of every cycle.
C25_Witness ==
    /\ NotifyDone
    /\ nargs.initial
    /\ filter(nargs.newIssues, danger) # <<>>
    /\ delivered # <<>>
    /\ delivered[1].payload.Text = RestartText
    /\ \E k \in 2..Len(delivered) : /\ delivered[k].payload.Text = UrgentText
                                    /\ delivered[k].i = 2

\* C26: a fixed notification goes out iff the resolved issues are not
\* empty; it is one notification, listing the messages of all of them,
\* Danger and Warning alike, in their order, whether or not anything
\* appeared.
C26_FixedNotification ==
    NotifyDone =>
        \A h \in 1..Len(conf.SlackWebhooks) :
            LET ps == PayloadsTo(h)
                fixed == WithText(ps, FixedText)
            IN  /\ Cardinality(fixed) = IF nargs.fixedIssues # <<>> THEN 1 ELSE 0
                /\ \A i \in fixed : /\ TextsOf(ps[i]) = messages(nargs.fixedIssues)
                                    /\ ColorsOf(ps[i]) = {"good"}
                                    /\ i = Len(ps)
                /\ \A i \in 1..Len(ps) : "good" \in ColorsOf(ps[i]) => i \in fixed

\* C26 witness: nothing appeared, a Danger and a Warning issue were
\* resolved; the one notification sent lists both.
C26_Witness ==
    /\ NotifyDone
    /\ nargs.newIssues = <<>>
    /\ nargs.fixedIssues = <<issueEntry(danger, "Z"), issueEntry(warning, "W")>>
    /\ Len(delivered) = 2
    /\ delivered[1].payload.Text = FixedText
    /\ TextsOf(delivered[1].payload) = <<"Z", "W">>

\* The sends of notification i to webhook h that were tried, whatever
\* their result.
Tried(i, h) == {a \in Attempts : a.i = i /\ a.h = h}

\* C27: a failed send stops nothing. When pushToSlack is through, every
\* notification was handed to every webhook exactly once, with its payload,
\* whichever sends failed; and no send, failed or not, touches the state of
\* the check loop.
C27_FailuresIsolated ==
    /\ [](NotifyDone =>
            /\ \A i \in 1..Len(calls) : \A h \in 1..Len(conf.SlackWebhooks) :
                  /\ Cardinality(Tried(i, h)) = 1
                  /\ \A a \in Tried(i, h) : /\ a.payload = calls[i]
                                            /\ a.url = conf.SlackWebhooks[h]
            /\ Len(delivered) + Len(logged)
                  = Len(calls) * Len(conf.SlackWebhooks))
    /\ [][(delivered' # delivered \/ logged' # logged)
              => UNCHANGED <<issues, initialCheck, lastCheck, curIssues, pc, cycle>>]_vars

\* C27 witness: the first notification failed at the first webhook, went
\* through at the second, and a later notification went through at the
\* first webhook.
C27_Witness ==
    /\ NotifyDone
    /\ \E a \in Range(logged) : /\ a.i = 1 /\ a.h = 1
    /\ \E a \in Range(delivered) : a.i = 1 /\ a.h = 2
    /\ \E a \in Range(delivered) : a.i > 1 /\ a.h = 1

-----------------------------------------------------------------------------
(* main.go: checkCertificateExpiryOf and checkAtumServer on the answer of
   one target (SpecTarget) *)

\* Most certificates in the chain a host presents.
MaxChain == 2

\* Times are counted in hours. The moments a check runs at, and the NotAfter
\* of the certificates it meets: 10 days before the earlier check, 19 and 5
\* hours before it, and 10, 29, 30 and 45 days after it.
Nows == {0, 5}
NotAfters == {-240, -19, -5, 240, 696, 720, 1080}
Certificates == [Issuer : {"CA"}, NotAfter : NotAfters]

\* What retryablehttp.Head(url) comes back with: an error, a response
\* without TLS, or one with the peer's certificate chain.
HeadAnswers ==
    {[err |-> "connection refused", TLS |-> FALSE, PeerCertificates |-> <<>>],
     [err |-> "", TLS |-> FALSE, PeerCertificates |-> <<>>]}
    \cup {[err |-> "", TLS |-> TRUE, PeerCertificates |-> ch] :
              ch \in SeqsUpTo(Certificates, MaxChain)}

\* What atum.JsonStamp and atum.Verify come back with for a server.
AtumAnswers ==
    [stampErr : {"", "timeout"}, verifyErr : {"", "bad signature"},
     valid : BOOLEAN, url2 : {"https://atum", "https://other"}]

\* int(x / 24) for a number x of hours: Go's conversion drops the fraction,
\* towards zero for either sign.
hoursToDays(h) == IF h >= 0 THEN h \div 24 ELSE -((-h) \div 24)

\* daysExpired := int(time.Since(cert.NotAfter).Hours() / 24)
daysExpired(cert, t) == hoursToDays(t - cert.NotAfter)

\* Mutant: the messages do not carry the number of days.
certificateIssues_noCount(url, cert, t) ==
    LET d == daysExpired(cert, t)
    IN  IF d > 0
        THEN <<issueEntry(danger, url \o ": certificate from " \o cert.Issuer
                                  \o " has expired")>>
        ELSE IF d > -30
        THEN <<issueEntry(warning, url \o ": certificate from " \o cert.Issuer
                                   \o " will expire soon")>>
        ELSE <<>>

\* Mutant: a certificate with exactly 30 days left is warned about too.
certificateIssues_thirtyIncluded(url, cert, t) ==
    LET d == daysExpired(cert, t)
    IN  IF d > 0
        THEN <<issueEntry(danger, url \o ": certificate from " \o cert.Issuer
                                  \o " has expired " \o ToString(d) \o " days")>>
        ELSE IF d >= -30
        THEN <<issueEntry(warning, url \o ": certificate from " \o cert.Issuer
                                   \o " will expire in " \o ToString(-d) \o " days")>>
        ELSE <<>>

\* The body of the loop over resp.TLS.PeerCertificates: what one
\* certificate adds to ret.
certificateIssues(url, cert, t) ==
    LET d == daysExpired(cert, t)
    IN  IF d > 0
        THEN <<issueEntry(danger, url \o ": certificate from " \o cert.Issuer
                                  \o " has expired " \o ToString(d) \o " days")>>
        ELSE IF d > -30
        THEN <<issueEntry(warning, url \o ": certificate from " \o cert.Issuer
                                   \o " will expire in " \o ToString(-d) \o " days")>>
        ELSE <<>>

RECURSIVE chainIssuesFrom(_, _, _, _)
chainIssuesFrom(url, chain, t, k) ==
    IF k > Len(chain) THEN <<>>
    ELSE certificateIssues(url, chain[k], t) \o chainIssuesFrom(url, chain, t, k + 1)

\* checkCertificateExpiryOf(url), given the answer of the HEAD request and
\* the time of the check.
checkCertificateExpiryOfAnswer(url, resp0, t) ==
    IF resp0.err # ""
    THEN <<issueEntry(danger, url \o ": error " \o resp0.err)>>
    ELSE IF ~resp0.TLS
    THEN <<issueEntry(warning, url \o ": no TLS enabled")>>
    ELSE chainIssuesFrom(url, resp0.PeerCertificates, t, 1)

\* Mutant: the claimed URL is compared before the validity is looked at.
checkAtumServerAnswer_urlFirst(url, a) ==
    IF a.stampErr # ""
    THEN <<issueEntry(danger, url \o ": requesting Atum stamp failed: " \o a.stampErr)>>
    ELSE IF a.verifyErr # ""
    THEN <<issueEntry(danger, url \o ": failed to verify signature: " \o a.verifyErr)>>
    ELSE IF url # a.url2
    THEN <<issueEntry(warning, url \o ": timestamp set for wrong url: " \o a.url2)>>
    ELSE IF ~a.valid
    THEN <<issueEntry(danger, url \o ": timestamp invalid")>>
    ELSE <<>>

\* checkAtumServer(url), given what JsonStamp and Verify answer.
checkAtumServerAnswer(url, a) ==
    IF a.stampErr # ""
    THEN <<issueEntry(danger, url \o ": requesting Atum stamp failed: " \o a.stampErr)>>
    ELSE IF a.verifyErr # ""
    THEN <<issueEntry(danger, url \o ": failed to verify signature: " \o a.verifyErr)>>
    ELSE IF ~a.valid
    THEN <<issueEntry(danger, url \o ": timestamp invalid")>>
    ELSE IF url # a.url2
    THEN <<issueEntry(warning, url \o ": timestamp set for wrong url: " \o a.url2)>>
    ELSE <<>>

\* One target of one cycle, with the answer it is going to give.
Targets ==
    {[kind |-> "cert", url |-> "https://host", answer |-> a, now |-> t, done |-> FALSE] :
         a \in HeadAnswers, t \in Nows}
    \cup {[kind |-> "atum", url |-> "https://atum", answer |-> a, now |-> 0, done |-> FALSE] :
              a \in AtumAnswers}

InitTarget ==
    /\ DiffIdle
    /\ ProbeIdle
    /\ LoopIdle
    /\ EvalIdle
    /\ FanIdle
    /\ SchedIdle
    /\ PageIdle
    /\ NotifyIdle
    /\ SchemeIdle
    /\ RenewIdle
    /\ CancelIdle
    /\ target \in Targets
    /\ targetRet = <<>>

\* checkCertificateExpiryOf runs on the host.
CheckCertificateExpiryOf ==
    /\ target.kind = "cert"
    /\ ~target.done
    /\ targetRet' = checkCertificateExpiryOfAnswer(target.url, target.answer, target.now)
    /\ target' = [target EXCEPT !.done = TRUE]
    /\ UNCHANGED <<diffVars, probeVars, loopVars, evalVars, fanVars, schedVars,
                   pageVars, notifyVars, schemeVars, renewVars, cancelVars>>

\* checkAtumServer runs on the server.
CheckAtumServer ==
    /\ target.kind = "atum"
    /\ ~target.done
    /\ targetRet' = checkAtumServerAnswer(target.url, target.answer)
    /\ target' = [target EXCEPT !.done = TRUE]
    /\ UNCHANGED <<diffVars, probeVars, loopVars, evalVars, fanVars, schedVars,
                   pageVars, notifyVars, schemeVars, renewVars, cancelVars>>

NextTarget == CheckCertificateExpiryOf \/ CheckAtumServer

SpecTarget == InitTarget /\ [][NextTarget]_vars

\* A host's certificates were looked at: the request succeeded, over TLS.
ChainChecked ==
    /\ target.kind = "cert"
    /\ target.done
    /\ target.answer.err = ""
    /\ target.answer.TLS

\* The hours since the NotAfter of the k-th certificate of the chain;
\* negative while it lies ahead.
SinceNotAfter(k) == target.now - target.answer.PeerCertificates[k].NotAfter

IssuesOfType(t) == {i \in 1..Len(targetRet) : targetRet[i].issueType = t}

\* C28: every certificate that has expired, by however little, gives a
\* Danger issue, every one that has not but does within 30 days a Warning
\* issue, and a host that answers without TLS a single Warning.
C28_ExpiredIsDanger ==
    /\ ChainChecked =>
          LET chain == target.answer.PeerCertificates
              expired == {k \in 1..Len(chain) : SinceNotAfter(k) > 0}
              soon == {k \in 1..Len(chain) :
                          SinceNotAfter(k) <= 0 /\ SinceNotAfter(k) > -(30 * 24)}
          IN  /\ Cardinality(IssuesOfType(danger)) = Cardinality(expired)
              /\ Cardinality(IssuesOfType(warning)) = Cardinality(soon)
    /\ (target.kind = "cert" /\ target.done
            /\ target.answer.err = "" /\ ~target.answer.TLS)
          => (Len(targetRet) = 1 /\ targetRet[1].issueType = warning)

\* What the boundaries by whole days ask of a certificate whose NotAfter is
\* a whole number d >= 1 of days away.
wholeDaysIssue(url, cert, t) ==
    LET h == t - cert.NotAfter
        d == IF h >= 0 THEN h \div 24 ELSE (-h) \div 24
    IN  IF h > 0
        THEN <<issueEntry(danger, url \o ": certificate from " \o cert.Issuer
                                  \o " has expired " \o ToString(d) \o " days")>>
        ELSE IF d < 30
        THEN <<issueEntry(warning, url \o ": certificate from " \o cert.Issuer
                                   \o " will expire in " \o ToString(d) \o " days")>>
        ELSE <<>>

RECURSIVE wholeDaysIssuesFrom(_, _, _, _)
wholeDaysIssuesFrom(url, chain, t, k) ==
    IF k > Len(chain) THEN <<>>
    ELSE wholeDaysIssue(url, chain[k], t) \o wholeDaysIssuesFrom(url, chain, t, k + 1)

WholeDays(k) == SinceNotAfter(k) # 0 /\ SinceNotAfter(k) % 24 = 0

\* C29: for a chain of certificates each a whole number d of days from its
\* NotAfter, the result is, certificate by certificate in the order of the
\* chain, a Warning 'will expire in d days' for d < 30 days ahead, nothing
\* for d >= 30 ahead, a Danger 'has expired d days' for d days past.
C29_WholeDayBoundaries ==
    (ChainChecked /\ \A k \in 1..Len(target.answer.PeerCertificates) : WholeDays(k))
        => /\ targetRet = wholeDaysIssuesFrom(target.url, target.answer.PeerCertificates,
                                              target.now, 1)
           /\ \A k \in 1..Len(target.answer.PeerCertificates) :
                 Len(target.answer.PeerCertificates) = 1 =>
                    /\ SinceNotAfter(k) = -240
                          => targetRet = <<issueEntry(warning,
                               "https://host: certificate from CA will expire in 10 days")>>
                    /\ SinceNotAfter(k) = 240
                          => targetRet = <<issueEntry(danger,
                               "https://host: certificate from CA has expired 10 days")>>
                    /\ SinceNotAfter(k) \in {-720, -1080} => targetRet = <<>>

\* C29 witness: a chain of a certificate 10 days past its NotAfter and one
\* with 10 days left gave a Danger and a Warning issue, in that order.
C29_Witness ==
    /\ ChainChecked
    /\ Len(target.answer.PeerCertificates) = 2
    /\ SinceNotAfter(1) = 240
    /\ SinceNotAfter(2) = -240
    /\ targetRet = <<issueEntry(danger,
                        "https://host: certificate from CA has expired 10 days"),
                     issueEntry(warning,
                        "https://host: certificate from CA will expire in 10 days")>>

\* C30: a timestamp server gives at most one issue, that of the first step
\* that fails: the stamp request (Danger), the verification (Danger), the
\* validity (Danger), the claimed URL (Warning); none only if all four pass.
C30_FirstFailingStep ==
    (target.kind = "atum" /\ target.done) =>
        LET a == target.answer
            stampOK == a.stampErr = ""
            verifyOK == a.verifyErr = ""
            urlOK == a.url2 = target.url
        IN  /\ Len(targetRet) <= 1
            /\ ~stampOK => /\ Len(targetRet) = 1
                           /\ targetRet[1] = issueEntry(danger,
                                 target.url \o ": requesting Atum stamp failed: " \o a.stampErr)
            /\ (stampOK /\ ~verifyOK)
                  => /\ Len(targetRet) = 1
                     /\ targetRet[1] = issueEntry(danger,
                           target.url \o ": failed to verify signature: " \o a.verifyErr)
            /\ (stampOK /\ verifyOK /\ ~a.valid)
                  => /\ Len(targetRet) = 1
                     /\ targetRet[1] = issueEntry(danger, target.url \o ": timestamp invalid")
            /\ (stampOK /\ verifyOK /\ a.valid /\ ~urlOK)
                  => /\ Len(targetRet) = 1
                     /\ targetRet[1] = issueEntry(warning,
                           target.url \o ": timestamp set for wrong url: " \o a.url2)
            /\ (targetRet = <<>>) <=> (stampOK /\ verifyOK /\ a.valid /\ urlOK)

\* C30 witness: the stamp came and verified without error, but is not valid
\* and names another URL; the one issue is the Danger of the validity.
C30_Witness ==
    /\ target.kind = "atum"
    /\ target.done
    /\ target.answer.stampErr = ""
    /\ target.answer.verifyErr = ""
    /\ ~target.answer.valid
    /\ target.answer.url2 # target.url
    /\ targetRet = <<issueEntry(danger, "https://atum: timestamp invalid")>>


\* What holds in place of C28: a certificate is a Danger from a full day
\* past its NotAfter on; one less than a day past it is warned about like
\* one that has not expired.
C28_DangerFromOneDay ==
    ChainChecked =>
        LET chain == target.answer.PeerCertificates
            aDay == {k \in 1..Len(chain) : SinceNotAfter(k) >= 24}
            soon == {k \in 1..Len(chain) :
                        SinceNotAfter(k) < 24 /\ SinceNotAfter(k) > -(30 * 24)}
        IN  /\ Cardinality(IssuesOfType(danger)) = Cardinality(aDay)
            /\ Cardinality(IssuesOfType(warning)) = Cardinality(soon)

-----------------------------------------------------------------------------
(* SpecScheme: checkSchemeManagers (main.go 380-415) called cycle after     *)
(* cycle on the one irmaConfig, whose Warnings outlive the call             *)

\* The number of cycles SpecScheme follows.
MaxSchemeRuns == 2

\* The most warnings the library generates when it parses the schemes.
MaxWarnings == 1

SchemeWarnings == {"scheme pbdf: expired key", "scheme pbdf: missing logo"}

\* What the library does in one call: which of UpdateSchemes, ParseFolder
\* and ValidateKeys is the first to return an error, if any (the steps
\* after it are not reached); whether UpdateSchemes had something to update
\* and so parsed the schemes itself; and the warnings parsing the schemes
\* generates in this cycle.
SchemeAnswers ==
    [fails : {"none", "update schemes", "parse folder", "keys"},
     error : {"failed"},
     reparsed : BOOLEAN,
     warns : SeqsUpTo(SchemeWarnings, MaxWarnings)]

\* Mutant: the warnings of previous invocations are not cleared.
clearWarnings_kept(w) == w

\* irmaConfig.Warnings = []string{} (lines 384 and 397).
clearWarnings(w) == <<>>

\* irmaConfig.UpdateSchemes(): parses the schemes, adding their warnings,
\* when one had to be updated.
UpdateSchemes(w, a) == IF a.reparsed THEN w \o a.warns ELSE w

\* irmaConfig.ParseFolder(): adds the warnings of the schemes.
ParseFolder(w, a) == w \o a.warns

schemeError(a) ==
    <<issueEntry(warning, "irma scheme verify: " \o a.fails \o ": " \o a.error)>>

\* checkSchemeManagers on an irmaConfig whose Warnings are w: ret, and the
\* Warnings it leaves behind.
checkSchemeManagersOn(w, a) ==
    LET updated == UpdateSchemes(clearWarnings(w), a)
        parsed == ParseFolder(clearWarnings(updated), a)
    IN  IF a.fails = "update schemes"
        THEN [ret |-> schemeError(a), Warnings |-> updated]
        ELSE IF a.fails \in {"parse folder", "keys"}
        THEN [ret |-> schemeError(a), Warnings |-> parsed]
        ELSE [ret |-> [i \in 1..Len(parsed) |-> issueEntry(warning, parsed[i])],
              Warnings |-> parsed]

InitScheme ==
    /\ DiffIdle
    /\ ProbeIdle
    /\ LoopIdle
    /\ EvalIdle
    /\ FanIdle
    /\ SchedIdle
    /\ PageIdle
    /\ NotifyIdle
    /\ TargetIdle
    /\ RenewIdle
    /\ CancelIdle
    /\ Warnings = <<>>
    /\ schemeRuns = <<>>

\* One cycle's call of checkSchemeManagers.
CheckSchemeManagers(a) ==
    /\ Len(schemeRuns) < MaxSchemeRuns
    /\ LET r == checkSchemeManagersOn(Warnings, a)
       IN  /\ Warnings' = r.Warnings
           /\ schemeRuns' = Append(schemeRuns,
                                   [answer |-> a, before |-> Warnings, ret |-> r.ret])
    /\ UNCHANGED <<diffVars, probeVars, loopVars, evalVars, fanVars, schedVars,
                   pageVars, notifyVars, targetVars, renewVars, cancelVars>>

NextScheme == \E a \in SchemeAnswers : CheckSchemeManagers(a)

SpecScheme == InitScheme /\ [][NextScheme]_vars

\* C31: every issue of checkSchemeManagers is a Warning. If the update, the
\* parsing or the key validation fails, the call gives the one issue of
\* that error and no warning of the library; otherwise it gives one issue
\* per warning generated in this cycle, in their order. A warning left from
\* an earlier cycle is in the result only if this cycle generated it again.
C31_SchemeIssues ==
    \A k \in 1..Len(schemeRuns) :
        LET r == schemeRuns[k]
        IN  /\ \A i \in 1..Len(r.ret) : r.ret[i].issueType = warning
            /\ r.answer.fails # "none" =>
                  /\ Len(r.ret) = 1
                  /\ r.ret[1].message = "irma scheme verify: " \o r.answer.fails
                                            \o ": " \o r.answer.error
                  /\ r.ret[1].message \notin SchemeWarnings
            /\ r.answer.fails = "none" => messages(r.ret) = r.answer.warns
            /\ \A m \in Range(messages(r.ret)) \cap Range(r.before) :
                  m \in Range(r.answer.warns)

\* C31 witness: the first cycle generated a warning, in the update and
\* again in the parsing, and reported it once; the second, with the warning
\* still held by irmaConfig, generated none and reported nothing.
C31_Witness ==
    /\ Len(schemeRuns) = 2
    /\ schemeRuns[1].answer.fails = "none"
    /\ schemeRuns[1].answer.reparsed
    /\ schemeRuns[1].ret = <<issueEntry(warning, "scheme pbdf: expired key")>>
    /\ schemeRuns[2].before = <<"scheme pbdf: expired key">>
    /\ schemeRuns[2].answer.fails = "none"
    /\ schemeRuns[2].answer.warns = <<>>
    /\ schemeRuns[2].ret = <<>>

-----------------------------------------------------------------------------
(* SpecCancel: the CheckRetry closure (health_check.go 76-85) and the lines *)
(* after client.Do (87-99) for a context that is cancelled while the probe  *)
(* retries. runHealthCheck builds its request with retryablehttp.NewRequest, *)
(* whose context is context.Background() (ctxErr, SpecProbe); SpecCancel    *)
(* follows the same code when the ctx parameter of the closure is a context *)
(* that can be cancelled.                                                   *)

\* The probes of SpecCancel.
CancelChecks == {HC("https://a/health"), HC("https://b/health")}

\* ctx.Err() != nil
cancelled == ctx # ""

InitCancel ==
    /\ DiffIdle
    /\ LoopIdle
    /\ EvalIdle
    /\ FanIdle
    /\ SchedIdle
    /\ PageIdle
    /\ NotifyIdle
    /\ TargetIdle
    /\ SchemeIdle
    /\ RenewIdle
    /\ check \in CancelChecks
    /\ ppc = "start"
    /\ attempt = 0
    /\ intermediateIssue = <<>>
    /\ resp = <<>>
    /\ err = FALSE
    /\ issue = <<>>
    /\ ret = <<>>
    /\ firstFail = <<>>
    /\ seen = {}
    /\ gaveUp = FALSE
    /\ last = <<>>
    /\ ctx = ""
    /\ aborted = FALSE

\* The context is cancelled while client.Do is at work.
Cancel ==
    /\ ppc = "attempt"
    /\ ctx = ""
    /\ ctx' = "context canceled"
    /\ UNCHANGED aborted
    /\ UNCHANGED <<diffVars, probeVars, loopVars, evalVars, fanVars, schedVars,
                   pageVars, notifyVars, targetVars, schemeVars, renewVars>>

\* An attempt made after the cancellation: DefaultRetryPolicy returns
\* (false, ctx.Err()), so does CheckRetry (lines 77-80) without touching
\* intermediateIssue, and client.Do hands the attempt's response back with
\* the context's error as its error.
AttemptCancelled(o) ==
    /\ ppc = "attempt"
    /\ cancelled
    /\ ~DefaultRetryPolicy(cancelled, o)
    /\ resp' = respOf(o)
    /\ err' = TRUE
    /\ seen' = seen \cup {kindOf(o)}
    /\ last' = <<o>>
    /\ ppc' = "classify"
    /\ aborted' = TRUE
    /\ UNCHANGED <<check, attempt, intermediateIssue, issue, ret, firstFail,
                   gaveUp, ctx>>
    /\ UNCHANGED <<diffVars, loopVars, evalVars, fanVars, schedVars,
                   pageVars, notifyVars, targetVars, schemeVars, renewVars>>

NextCancel ==
    \/ ProbeStart
    \/ Cancel
    \/ \E o \in LoopOutcomes : ~cancelled /\ AttemptFinal(o)
    \/ \E o \in LoopOutcomes : ~cancelled /\ AttemptRetry(o)
    \/ \E o \in LoopOutcomes : ~cancelled /\ AttemptGiveUp(o)
    \/ \E o \in LoopOutcomes : AttemptCancelled(o)
    \/ Classify
    \/ Finish

SpecCancel == InitCancel /\ [][NextCancel]_vars

C32_RetryStopsOnCancel ==
    /\ [][cancelled => attempt' = attempt]_vars
    /\ [](aborted => (ppc = "classify" => err))

-----------------------------------------------------------------------------
(* Claims about the page's pair of issues and time (SpecPage); old holds    *)
(* the snapshot the cycle before published, curIssues the one this cycle    *)
(* publishes                                                                *)

\* The snapshot of the cycle that lastCheck = k stands for.
SnapshotOfCycle(k) == IF k = cycle THEN curIssues ELSE old

\* C33: the issues and the time of the last check a page shows belong to
\* the same completed cycle, however the read falls between the updates at
\* the end of runChecks.
C33_PagePairOfOneCycle ==
    \A i \in 1..Len(pages) :
        pages[i].Issues = messages(SnapshotOfCycle(pages[i].LastCheck))

\* What does hold: a read before line 233 or after line 235 shows a pair
\* of one cycle.
C33_PairUnlessBetween ==
    \A i \in 1..Len(pages) :
        pages[i].at = "tick" =>
            pages[i].Issues = messages(SnapshotOfCycle(pages[i].LastCheck))

-----------------------------------------------------------------------------
(* Claims about the detached pushToSlack goroutines (Spec) *)

\* C34: the sends are made in the order of the cycles: every send of
\* cycle k comes before any send of cycle k + 1.
C34_SentInCycleOrder ==
    \A i, j \in 1..Len(sent) : i < j => sent[i].cycle <= sent[j].cycle

\* What does hold: the sends of one cycle are made in the order pushToSlack
\* makes its calls in, and a cycle's goroutine is started before the next
\* cycle's.
C34_OrderWithinCycle ==
    /\ \A k \in 1..Len(tasks) : \A l \in 1..Len(tasks) :
          k < l => tasks[k].cycle < tasks[l].cycle
    /\ \A k \in 1..Len(tasks) :
          tasks[k].done =>
              [i \in 1..Cardinality(SendsOf(tasks[k].cycle)) |->
                  LET idx == CHOOSE n \in SendsOf(tasks[k].cycle) :
                                Cardinality({m \in SendsOf(tasks[k].cycle) : m < n}) = i - 1
                  IN  sent[idx]]
              = pushMessagesToSlack(tasks[k].payloads, 1, conf.SlackWebhooks,
                                    tasks[k].cycle)

-----------------------------------------------------------------------------
(* Claims about the channel and the wait group of runHealthChecks           *)
(* (SpecFanFair)                                                            *)

\* The results sent so far: those in the channel and those taken from it.
ResultsSent == Cardinality({i \in 1..Len(taskpc) : taskpc[i] \in {"done", "finished"}})

\* C35: for every number of probes, none included, no goroutine ever waits
\* at its send (the channel has room for all results), the channel is
\* closed only after every result was sent, never a send meets the closed
\* channel, and, every probe ending, runHealthChecks returns, having taken
\* exactly as many results from the channel as there are probes.
C35_FanOutCompletes ==
    /\ [](/\ hpc # "panic"
          /\ \A i \in 1..Len(taskpc) :
                taskpc[i] = "send" =>
                    /\ ~chanClosed
                    /\ Len(issueChan) < chanCap(Len(conf.HealthChecks))
          /\ Len(issueChan) <= Len(conf.HealthChecks)
          /\ hpc \in {"close", "drain", "publish", "published"} =>
                ResultsSent = Len(conf.HealthChecks)
          /\ hpc = "close" => Len(issueChan) = Len(conf.HealthChecks)
          /\ hpc \in {"publish", "published"} => issueChan = <<>>)
    /\ [][hpc = "drain" /\ hpc' # "drain" => issueChan = <<>>]_vars
    /\ <>(hpc \in {"publish", "published"})

\* C35 witness: two probes; both results lie in the channel, which is
\* about to be closed.
C35_Witness ==
    /\ hpc = "close"
    /\ Len(conf.HealthChecks) = 2
    /\ Len(issueChan) = 2
    /\ \A i \in 1..2 : taskpc[i] = "finished"


\* C36: a cycle's pushToSlack goroutine works with the first-cycle flag as
\* it was when the goroutine was started: true for the first cycle's, also
\* when it runs after runChecks has reset initialCheck, false for every
\* later cycle's, whenever the goroutine runs.
C36_FlagAsDispatched ==
    /\ [](\A k \in 1..Len(tasks) : tasks[k].initial = (tasks[k].cycle = 1))
    /\ [][\A k \in 1..Len(tasks) :
             (~tasks[k].done /\ tasks'[k].done) =>
                 sent' = sent \o pushMessagesToSlack(
                                     pushToSlack(tasks[k].newIssues,
                                                 tasks[k].fixedIssues,
                                                 tasks[k].cycle = 1),
                                     1, conf.SlackWebhooks, tasks[k].cycle)]_vars

\* C36 witness: the first cycle's goroutine ran after the second cycle's,
\* so after the flag was reset, and still sent the restart notice.
C36_Witness ==
    /\ ~initialCheck
    /\ Len(sent) >= 2
    /\ sent[1].cycle = 2
    /\ \E i \in 2..Len(sent) : /\ sent[i].cycle = 1
                               /\ sent[i].payload.Text = RestartText

-----------------------------------------------------------------------------
(* SpecRenew: one host whose certificate chain stays the same, checked by   *)
(* checkCertificateExpiryOf cycle after cycle as time passes; runChecks     *)
(* takes the difference with the previous snapshot (main.go 228-233)        *)

\* The number of cycles SpecRenew follows.
MaxRenewCycles == 2

\* The times, in hours, of the cycles, and the NotAfter of the host's
\* certificates: 10 days before the first cycle, 10 and 11 days and 45
\* days after it.
RenewTimes == {0, 5, 24, 48}
RenewNotAfters == {-240, 240, 264, 1080}
RenewChains == SeqsUpTo([Issuer : {"CA"}, NotAfter : RenewNotAfters], MaxChain)

RenewConfs ==
    {[SlackWebhooks |-> hooks, CheckSchemeManagers |-> {},
      CheckCertificateExpiry |-> <<"https://host">>, CheckAtumServers |-> <<>>,
      HealthChecks |-> <<>>] : hooks \in {<<>>, <<"https://hooks/1">>}}

InitRenew ==
    /\ DiffIdle
    /\ ProbeIdle
    /\ EvalIdle
    /\ FanIdle
    /\ SchedIdle
    /\ PageIdle
    /\ NotifyIdle
    /\ TargetIdle
    /\ SchemeIdle
    /\ CancelIdle
    /\ conf \in RenewConfs
    /\ pc = "idle"
    /\ issues = <<>>
    /\ initialCheck = TRUE
    /\ lastCheck = 0
    /\ curIssues = <<>>
    /\ cycle = 0
    /\ tasks = <<>>
    /\ sent = <<>>
    /\ certRuns = <<>>

\* One runChecks at time t on the host, whose chain is the one it had in
\* the cycle before: the check, the difference with the published snapshot
\* and the notifications pushToSlack makes of it, if a webhook is
\* configured; then lines 233-234.
RunChecksOnHost(chain, t) ==
    /\ Len(certRuns) < MaxRenewCycles
    /\ certRuns # <<>> =>
          /\ chain = certRuns[Len(certRuns)].chain
          /\ t > certRuns[Len(certRuns)].now
    /\ LET r == checkCertificateExpiryOfAnswer(
                    conf.CheckCertificateExpiry[1],
                    [err |-> "", TLS |-> TRUE, PeerCertificates |-> chain], t)
           dif == difference(issues, r)
       IN  /\ certRuns' = Append(certRuns,
                  [now |-> t, chain |-> chain, ret |-> r,
                   newIssues |-> dif.came, fixedIssues |-> dif.gone,
                   payloads |-> IF Len(conf.SlackWebhooks) > 0
                                THEN pushToSlack(dif.came, dif.gone, initialCheck)
                                ELSE <<>>])
           /\ issues' = r
           /\ curIssues' = r
    /\ initialCheck' = FALSE
    /\ cycle' = cycle + 1
    /\ UNCHANGED <<conf, pc, lastCheck, tasks, sent>>
    /\ UNCHANGED <<diffVars, probeVars, evalVars, fanVars, schedVars, pageVars,
                   notifyVars, targetVars, schemeVars, cancelVars>>

NextRenew == \E chain \in RenewChains, t \in RenewTimes : RunChecksOnHost(chain, t)

SpecRenew == InitRenew /\ [][NextRenew]_vars

\* The message about a certificate with the day count d.
dayCountMessage(cert, d) ==
    "https://host: certificate from " \o cert.Issuer
        \o (IF d > 0 THEN " has expired " \o ToString(d) \o " days"
            ELSE " will expire in " \o ToString(-d) \o " days")

\* Certificate c of the chain is in the expired or the expiring-soon range
\* in cycle k and in cycle k + 1, with different day counts.
CountChanged(k, c) ==
    LET d1 == daysExpired(certRuns[k].chain[c], certRuns[k].now)
        d2 == daysExpired(certRuns[k].chain[c], certRuns[k + 1].now)
    IN  d1 > -30 /\ d2 > -30 /\ d1 # d2

EarlierMessage(k, c) ==
    dayCountMessage(certRuns[k].chain[c],
                    daysExpired(certRuns[k].chain[c], certRuns[k].now))

LaterMessage(k, c) ==
    dayCountMessage(certRuns[k].chain[c],
                    daysExpired(certRuns[k].chain[c], certRuns[k + 1].now))

\* The messages the notifications ps list whose text is among ts.
ListedUnder(ps, ts) ==
    UNION {Range(TextsOf(ps[i])) : i \in {j \in 1..Len(ps) : ps[j].Text \in ts}}

\* C37 as stated: for every certificate whose day count changed between
\* two cycles, the earlier message is among the resolved and the later
\* among the appeared, and, a webhook being configured, a fixed and a new
\* notification list them.
C37_EveryChangeReannounced ==
    \A k \in 1..(Len(certRuns) - 1) : \A c \in 1..Len(certRuns[k].chain) :
        CountChanged(k, c) =>
            LET run == certRuns[k + 1]
            IN  /\ EarlierMessage(k, c) \in Range(messages(run.fixedIssues))
                /\ LaterMessage(k, c) \in Range(messages(run.newIssues))
                /\ Len(conf.SlackWebhooks) > 0 =>
                      /\ EarlierMessage(k, c) \in ListedUnder(run.payloads, {FixedText})
                      /\ LaterMessage(k, c)
                            \in ListedUnder(run.payloads, {UrgentText, WarningText})

\* C37: for every certificate whose day count changed between two cycles,
\* the earlier message is among the resolved unless the later snapshot
\* holds the same message again (for another certificate of the host and
\* issuer), and the later message is among the appeared unless the earlier
\* snapshot held it already; with a webhook configured the fixed and the
\* new notification list them accordingly. For a host with one certificate
\* both are always the case.
C37_ChangeReannouncedUnlessSameMessage ==
    \A k \in 1..(Len(certRuns) - 1) : \A c \in 1..Len(certRuns[k].chain) :
        CountChanged(k, c) =>
            LET run == certRuns[k + 1]
                e == EarlierMessage(k, c)
                l == LaterMessage(k, c)
                stillThere == e \in Range(messages(run.ret))
                wasThere == l \in Range(messages(certRuns[k].ret))
            IN  /\ e \in Range(messages(run.fixedIssues)) <=> ~stillThere
                /\ l \in Range(messages(run.newIssues)) <=> ~wasThere
                /\ Len(conf.SlackWebhooks) > 0 =>
                      /\ e \in ListedUnder(run.payloads, {FixedText}) <=> ~stillThere
                      /\ l \in ListedUnder(run.payloads, {UrgentText, WarningText})
                            <=> ~wasThere
                /\ Len(run.chain) = 1 => ~stillThere /\ ~wasThere

\* C37 witness: one certificate with 10 days left, and a day later 9: the
\* second cycle reports the first message fixed and the second new.
C37_Witness ==
    /\ Len(certRuns) = 2
    /\ Len(conf.SlackWebhooks) > 0
    /\ Len(certRuns[1].chain) = 1
    /\ CountChanged(1, 1)
    /\ messages(certRuns[2].fixedIssues)
          = <<"https://host: certificate from CA will expire in 10 days">>
    /\ messages(certRuns[2].newIssues)
          = <<"https://host: certificate from CA will expire in 9 days">>
    /\ Len(certRuns[2].payloads) = 2
    /\ certRuns[2].payloads[1].Text = WarningText
    /\ certRuns[2].payloads[2].Text = FixedText

=============================================================================
